---- MODULE Spec2Model ----
(***************************************************************************)
(* We-Track: the tracking core.                                            *)
(*                                                                         *)
(*   TrackingService  frontend/src/services/trackingService.ts             *)
(*   TrackingMap  frontend/src/components/map/TrackingMap.tsx              *)
(*   GPSService and the tracking hook  unnamed/part_001,                   *)
(*       frontend/src/hooks/useRealTimeTracking.ts                         *)
(*   MobileTrackingService  backend mobile tracking (unnamed/part_008)     *)
(*   socket server  backend/src/services/socket.ts                         *)
(*                                                                         *)
(* Coordinates.  calculateDistance is the haversine formula.  All samples  *)
(* of the model lie on one meridian, where the formula reduces to          *)
(* R * |dphi|; a latitude is written as its arc length in metres from the  *)
(* southernmost point considered, so that the distance between two         *)
(* samples is the absolute difference of their latitudes.                  *)
(***************************************************************************)
EXTENDS Integers, Sequences, FiniteSets, TLC

VARIABLES
    devices,                  \* Map<string, Device>
    vehicles,                 \* Map<string, Vehicle>
    trackingUpdates,          \* Map<string, TrackingUpdate[]>
    locationUpdateCallbacks,  \* Map<string, callback>
    realTimeTracking,         \* Map<string, boolean>
    trackingIntervals,        \* Map<string, Timeout>; the code never writes it
    timers,                   \* live setInterval timers of the runtime, per item id
    subscriptions,            \* per subscriber context: ids it subscribed and did not unsubscribe
    nextSeq,                  \* number of TrackingUpdates created so far
    lastCall,                 \* the handler that ran last, its inputs and what it invoked
    apiKeys,                  \* carriers whose API key is set in the environment
    calls,                    \* the trackMobileNumber calls, each with its position
    mobileTrackingRequests,   \* prisma.mobileTrackingRequest rows
    locations,                \* prisma.location rows
    socketCalls,              \* the 'location:update' messages being handled, each with its position
    trackingUpdateRows,       \* prisma.trackingUpdate rows
    currentLocationIds,       \* currentLocationId of the prisma.device and prisma.vehicle rows
    emitted,                  \* what the socket server has emitted, in order
    rooms,                    \* per connected socket: the rooms it has joined
    answer,                   \* what the last query of TrackingService returned
    viewUpdates,              \* per TrackingMap: its trackingUpdates state, Map<string, TrackingUpdate[]>
    viewSeen,                 \* per TrackingMap: the last update its callback's state updater has applied
    gpsService,               \* GPSService: callbacks, isTracking, watchId, lastKnownPosition
                              \* and the geolocation watches of the browser
    faulty,                   \* the subscriber contexts whose callback throws
    retry                     \* the retryWithBackoff call: its arguments, its position, what it did

trackingVars == <<devices, vehicles, trackingUpdates, locationUpdateCallbacks,
                  realTimeTracking, trackingIntervals, timers, subscriptions,
                  nextSeq, lastCall>>

mobileVars == <<apiKeys, calls, mobileTrackingRequests, locations>>

socketVars == <<socketCalls, trackingUpdateRows, currentLocationIds, emitted, rooms>>

\* what the handlers of TrackingService, of MobileTrackingService and of the
\* socket server leave alone
queryVars == <<answer>>

viewVars == <<viewUpdates, viewSeen>>

gpsVars == <<gpsService, faulty>>

retryVars == <<retry>>

besideTracking == <<queryVars, viewVars, gpsVars, mobileVars, socketVars, retryVars>>
besideMobile == <<trackingVars, queryVars, viewVars, gpsVars, socketVars, retryVars>>
besideSocket == <<trackingVars, queryVars, viewVars, gpsVars, apiKeys, calls,
                  mobileTrackingRequests, retryVars>>
besideQuery == <<trackingVars, viewVars, gpsVars, mobileVars, socketVars, retryVars>>
besideView == <<queryVars, gpsVars, mobileVars, socketVars, retryVars>>
besideGPS == <<queryVars, viewVars, mobileVars, socketVars, retryVars>>
besideRetry == <<trackingVars, queryVars, viewVars, gpsVars, mobileVars, socketVars>>

vars == <<trackingVars, queryVars, viewVars, gpsVars, mobileVars, socketVars,
          retryVars>>

----------------------------------------------------------------------------
(* Bounds of the model *)

\* latitudes are the multiples of Step metres up to MaxCell * Step
MaxCell == 2
\* total number of TrackingUpdates created in one behaviour
MaxUpdates == 4
\* live interval timers per item id
MaxTimers == 2
\* trackMobileNumber calls in one behaviour
MaxCalls == 2
\* 'location:update' messages handled in one behaviour
MaxMessages == 2
\* entries of a history that the queries are asked about
MaxHistory == 6
\* seconds between the last two entries of such a history
MaxGap == 2
\* the largest maxRetries that retryWithBackoff is called with
MaxRetries == 4

(* Program constants *)

\* metres between neighbouring lattice latitudes
Step == 5
\* "if (distance >= 10)"
SignificantMeters == 10
\* "if (updates.length > 100)": the cap, scaled from 100 to 2 so that a history
\* can be filled and overflowed within MaxUpdates; the code only compares
\* updates.length with it
HistoryCap == 2
\* (Math.random() - 0.5) * movementRadius with movementRadius = 0.002 degrees:
\* at most 0.001 degrees of latitude, 111 m of arc
MovementReachMeters == 111
\* "return totalDistance > 50"
MovingMeters == 50
\* "updates.slice(-5)"
RecentCount == 5
\* GPSService: "private distanceFilter: number = 10"
DistanceFilter == 10
\* TrackingMap: "if (updates.length > 50)": the cap of a view, scaled from 50
\* to 1 as HistoryCap is from 100 to 2
ViewCap == 1

----------------------------------------------------------------------------
(* Values *)

\* an absent Location (undefined), an absent callback, no TrackingUpdate
\* (updates are numbered from 1), an id that no map holds
NoLocation == [latitude |-> 0, source |-> "undefined"]
NoCallback == "undefined"
NoUpdate == 0
NoItem == "undefined"

ItemIds == {"1", "2"}
ItemTypes == {"device", "vehicle"}
Statuses == {"lost", "found", "returned"}
Subscribers == {"viewA", "viewB"}
Latitudes == {c * Step : c \in 0..MaxCell}
\* the ids whose device and vehicle change status or activation, and the ids
\* that subscriber contexts watch
UpdatedIds == {"1"}
SubscribedIds == {"1"}
\* where the random currentLocation of a mock item may lie
MockLatitudes == {0}

Location(lat, src) == [latitude |-> lat, source |-> src]

Abs(x) == IF x < 0 THEN -x ELSE x

\* gpsService.calculateDistance on the meridian
calculateDistance(pos1, pos2) == Abs(pos2.latitude - pos1.latitude)

----------------------------------------------------------------------------
(* TrackingService: helpers *)

\* initializeMockData: devices '1' and '2', vehicles '1' and '2' (the ids repeat
\* across the two maps); every currentLocation is a random point around the
\* item's lastKnownLocation
MockItem(status, lastSource, lat) ==
    [status |-> status, isActive |-> TRUE,
     lastKnownLocation |-> Location(0, lastSource),
     currentLocation |-> Location(lat, lastSource)]

\* "const item = device || vehicle": the map that answers for a bare id
ResolveType(devs, vehs, itemId) ==
    IF itemId \in DOMAIN devs THEN "device"
    ELSE IF itemId \in DOMAIN vehs THEN "vehicle" ELSE NoItem

\* "itemType === 'device' ? this.devices.get(itemId) : this.vehicles.get(itemId)"
HasItem(devs, vehs, itemType, itemId) ==
    IF itemType = "device" THEN itemId \in DOMAIN devs
    ELSE itemType = "vehicle" /\ itemId \in DOMAIN vehs

ItemOf(devs, vehs, itemType, itemId) ==
    IF itemType = "device" THEN devs[itemId] ELSE vehs[itemId]

\* "item.isActive && item.status === 'lost'"
IsSourcedMutant(item) == item.isActive
IsSourced(item) == item.isActive /\ item.status = "lost"

\* "item.currentLocation || item.lastKnownLocation"
LastLocationOf(item) ==
    IF item.currentLocation # NoLocation THEN item.currentLocation
    ELSE item.lastKnownLocation

\* "if (distance >= 10)"
IsSignificant(distance) == distance >= SignificantMeters

\* "if (updates.length > 100) updates.splice(0, updates.length - 100)"
KeepLast(updates) ==
    IF Len(updates) > HistoryCap
    THEN SubSeq(updates, Len(updates) - HistoryCap + 1, Len(updates))
    ELSE updates

\* "const callback = this.locationUpdateCallbacks.get(id); if (callback) callback(update)"
\* the result is the sequence of callback invocations made
NotifyMutant(callbacks, itemId, update) ==
    IF callbacks[itemId] # NoCallback
    THEN << [callback |-> callbacks[itemId], update |-> update.seq],
            [callback |-> callbacks[itemId], update |-> update.seq] >>
    ELSE << >>
Notify(callbacks, itemId, update) ==
    IF callbacks[itemId] # NoCallback
    THEN << [callback |-> callbacks[itemId], update |-> update.seq] >>
    ELSE << >>

\* a callback of a subscriber in quitters calls
\* unsubscribeFromLocationUpdates(itemId) for the item it is invoked for: the
\* registry and the subscribers' own books after the invocations made
CallbacksAfter(callbacks, itemId, invoked, quitters) ==
    IF \E k \in 1..Len(invoked) : invoked[k].callback \in quitters
    THEN [callbacks EXCEPT ![itemId] = NoCallback]
    ELSE callbacks

SubscriptionsAfter(subs, itemId, invoked, quitters) ==
    [s \in DOMAIN subs |->
        IF s \in quitters /\ \E k \in 1..Len(invoked) : invoked[k].callback = s
        THEN subs[s] \ {itemId}
        ELSE subs[s]]

\* item.currentLocation = location, on the object held by the map of its type
SetCurrentMutant(map, itemId, location) ==
    [map EXCEPT ![itemId].currentLocation = location,
                ![itemId].lastKnownLocation = location]
SetCurrent(map, itemId, location) ==
    [map EXCEPT ![itemId].currentLocation = location]

TrackingUpdate(seq, itemId, itemType, location, source) ==
    [seq |-> seq, itemId |-> itemId, itemType |-> itemType,
     location |-> location, source |-> source]

\* lastCall: the handler, its arguments, the currentLocation the item had
\* before it, the number of the TrackingUpdate it created and the callback
\* invocations it made
Call(op, itemId, itemType, sample, prev, update, invoked) ==
    [op |-> op, itemId |-> itemId, itemType |-> itemType, sample |-> sample,
     prev |-> prev, update |-> update, invoked |-> invoked]

----------------------------------------------------------------------------
(* TrackingService: operations *)

\* enableRealTimeTracking(itemId): the flag, and one more setInterval timer
\* unless the flag was already set; the handle is not kept
EnableFlag(flags, itemId) == [flags EXCEPT ![itemId] = TRUE]
EnableTimers(flags, tms, itemId) ==
    IF flags[itemId] THEN tms ELSE [tms EXCEPT ![itemId] = @ + 1]

\* disableRealTimeTracking(itemId): the flag; clearInterval only for a handle
\* found in trackingIntervals
DisableFlag(flags, itemId) == [flags EXCEPT ![itemId] = FALSE]
DisableTimers(intervals, tms, itemId) ==
    IF itemId \in intervals THEN [tms EXCEPT ![itemId] = 0] ELSE tms

\* constructor: initializeMockData(); startRealTimeTracking()
TrackingInit ==
    /\ \E l1, l2, l3, l4 \in MockLatitudes :
         /\ devices = [i \in ItemIds |->
                IF i = "1" THEN MockItem("lost", "gps", l1)
                ELSE MockItem("lost", "network", l2)]
         /\ vehicles = [i \in ItemIds |->
                IF i = "1" THEN MockItem("lost", "gps", l3)
                ELSE MockItem("found", "witness", l4)]
    /\ trackingUpdates = [i \in ItemIds |-> << >>]
    /\ locationUpdateCallbacks = [i \in ItemIds |-> NoCallback]
    /\ realTimeTracking = [i \in ItemIds |-> TRUE]
    /\ trackingIntervals = {}
    /\ timers = [i \in ItemIds |-> 1]
    /\ subscriptions = [s \in Subscribers |-> {}]
    /\ nextSeq = 0
    /\ lastCall = Call("constructor", NoItem, NoItem, NoLocation, NoLocation, NoUpdate, << >>)

\* one firing of an interval timer: updateItemLocationRealTime(itemId), where
\* the callbacks of the subscribers in quitters unsubscribe when invoked
RealTimeTick(itemId, quitters) ==
    /\ timers[itemId] > 0
    /\ LET itemType == ResolveType(devices, vehicles, itemId)
           item == ItemOf(devices, vehicles, itemType, itemId)
       IN
       IF \/ itemType = NoItem
          \/ ~IsSourced(item)
          \/ LastLocationOf(item) = NoLocation
       THEN /\ lastCall' = Call("tick", itemId, itemType, NoLocation, NoLocation,
                                NoUpdate, << >>)
            /\ UNCHANGED <<devices, vehicles, trackingUpdates, nextSeq>>
       ELSE \E lat \in Latitudes :
            /\ Abs(lat - LastLocationOf(item).latitude) <= MovementReachMeters
            /\ LET newLocation == Location(lat, "gps")
                   distance == calculateDistance(LastLocationOf(item), newLocation)
                   update == TrackingUpdate(nextSeq + 1, itemId, itemType,
                                            newLocation, "Real-time GPS")
               IN
               IF IsSignificant(distance)
               THEN /\ nextSeq < MaxUpdates
                    /\ devices' = IF itemType = "device"
                                  THEN SetCurrent(devices, itemId, newLocation)
                                  ELSE devices
                    /\ vehicles' = IF itemType = "vehicle"
                                   THEN SetCurrent(vehicles, itemId, newLocation)
                                   ELSE vehicles
                    /\ trackingUpdates' = [trackingUpdates EXCEPT ![itemId] =
                                              KeepLast(Append(@, update))]
                    /\ nextSeq' = nextSeq + 1
                    /\ lastCall' = Call("tick", itemId, itemType, newLocation,
                                        item.currentLocation, update.seq,
                                        Notify(locationUpdateCallbacks, itemId, update))
               ELSE /\ lastCall' = Call("tick", itemId, itemType, newLocation,
                                        item.currentLocation, NoUpdate, << >>)
                    /\ UNCHANGED <<devices, vehicles, trackingUpdates, nextSeq>>
    /\ locationUpdateCallbacks' =
           CallbacksAfter(locationUpdateCallbacks, itemId, lastCall'.invoked, quitters)
    /\ subscriptions' =
           SubscriptionsAfter(subscriptions, itemId, lastCall'.invoked, quitters)
    /\ UNCHANGED <<realTimeTracking, trackingIntervals, timers>>
    /\ UNCHANGED besideTracking

\* the same with callbacks that stay subscribed
updateItemLocationRealTime(itemId) == RealTimeTick(itemId, {})

\* the part of the service that updateItemLocation reads and writes
Store(devs, vehs, updatesOf, seq, call) ==
    [devices |-> devs, vehicles |-> vehs, trackingUpdates |-> updatesOf,
     nextSeq |-> seq, lastCall |-> call]

\* updateItemLocation(itemId, location, itemType), as the store it leaves: the
\* item's currentLocation, the update pushed onto the history, the callback
\* invoked; nothing when the map of the type holds no item of that id
ItemLocationUpdated(store, callbacks, itemId, location, itemType) ==
    LET item == ItemOf(store.devices, store.vehicles, itemType, itemId)
        update == TrackingUpdate(store.nextSeq + 1, itemId, itemType, location,
                                 "Manual Update")
    IN
    IF HasItem(store.devices, store.vehicles, itemType, itemId)
    THEN Store(IF itemType = "device"
               THEN SetCurrent(store.devices, itemId, location) ELSE store.devices,
               IF itemType = "vehicle"
               THEN SetCurrent(store.vehicles, itemId, location) ELSE store.vehicles,
               [store.trackingUpdates EXCEPT ![itemId] = Append(@, update)],
               store.nextSeq + 1,
               Call("updateItemLocation", itemId, itemType, location,
                    item.currentLocation, update.seq,
                    Notify(callbacks, itemId, update)))
    ELSE [store EXCEPT !.lastCall =
             Call("updateItemLocation", itemId, itemType, location,
                  NoLocation, NoUpdate, << >>)]

\* updateItemLocation(itemId, location, itemType): the manual update of the
\* hook (source 'manual') and the device-GPS callback of the hook (source 'gps')
updateItemLocation(itemId, location, itemType) ==
    LET after == ItemLocationUpdated(
                     Store(devices, vehicles, trackingUpdates, nextSeq, lastCall),
                     locationUpdateCallbacks, itemId, location, itemType)
    IN
    /\ after.nextSeq <= MaxUpdates
    /\ devices' = after.devices
    /\ vehicles' = after.vehicles
    /\ trackingUpdates' = after.trackingUpdates
    /\ nextSeq' = after.nextSeq
    /\ lastCall' = after.lastCall
    /\ UNCHANGED <<locationUpdateCallbacks, realTimeTracking, trackingIntervals,
                   timers, subscriptions>>
    /\ UNCHANGED besideTracking

\* "{ ...device, ...updates }"
Merge(item, updates) ==
    [f \in DOMAIN item |-> IF f \in DOMAIN updates THEN updates[f] ELSE item[f]]

\* the Partial<Device> / Partial<Vehicle> arguments considered: a status change
\* or an activation change
UpdateInputs ==
    {[status |-> s] : s \in Statuses} \cup {[isActive |-> b] : b \in BOOLEAN}

\* updateDevice(id, updates)
updateDevice(id, updates) ==
    /\ IF id \in DOMAIN devices
       THEN LET updatedDevice == Merge(devices[id], updates) IN
            /\ devices' = [devices EXCEPT ![id] = updatedDevice]
            /\ IF IsSourced(updatedDevice)
               THEN /\ realTimeTracking' = EnableFlag(realTimeTracking, id)
                    /\ timers' = EnableTimers(realTimeTracking, timers, id)
                    /\ timers'[id] <= MaxTimers
               ELSE /\ realTimeTracking' = DisableFlag(realTimeTracking, id)
                    /\ timers' = DisableTimers(trackingIntervals, timers, id)
       ELSE UNCHANGED <<devices, realTimeTracking, timers>>
    /\ lastCall' = Call("updateDevice", id, "device", NoLocation, NoLocation,
                        NoUpdate, << >>)
    /\ UNCHANGED <<vehicles, trackingUpdates, locationUpdateCallbacks,
                   trackingIntervals, subscriptions, nextSeq>>
    /\ UNCHANGED besideTracking

\* updateVehicle(id, updates)
updateVehicle(id, updates) ==
    /\ IF id \in DOMAIN vehicles
       THEN LET updatedVehicle == Merge(vehicles[id], updates) IN
            /\ vehicles' = [vehicles EXCEPT ![id] = updatedVehicle]
            /\ IF IsSourced(updatedVehicle)
               THEN /\ realTimeTracking' = EnableFlag(realTimeTracking, id)
                    /\ timers' = EnableTimers(realTimeTracking, timers, id)
                    /\ timers'[id] <= MaxTimers
               ELSE /\ realTimeTracking' = DisableFlag(realTimeTracking, id)
                    /\ timers' = DisableTimers(trackingIntervals, timers, id)
       ELSE UNCHANGED <<vehicles, realTimeTracking, timers>>
    /\ lastCall' = Call("updateVehicle", id, "vehicle", NoLocation, NoLocation,
                        NoUpdate, << >>)
    /\ UNCHANGED <<devices, trackingUpdates, locationUpdateCallbacks,
                   trackingIntervals, subscriptions, nextSeq>>
    /\ UNCHANGED besideTracking

\* subscribeToLocationUpdates(itemId, callback), called by subscriber context s
\* with its own callback
subscribeToLocationUpdates(s, itemId) ==
    /\ locationUpdateCallbacks' = [locationUpdateCallbacks EXCEPT ![itemId] = s]
    /\ subscriptions' = [subscriptions EXCEPT ![s] = @ \cup {itemId}]
    /\ lastCall' = Call("subscribe:" \o s, itemId, NoItem, NoLocation, NoLocation, NoUpdate, << >>)
    /\ UNCHANGED <<devices, vehicles, trackingUpdates, realTimeTracking,
                   trackingIntervals, timers, nextSeq>>
    /\ UNCHANGED besideTracking

\* unsubscribeFromLocationUpdates(itemId), called by subscriber context s
unsubscribeFromLocationUpdates(s, itemId) ==
    /\ locationUpdateCallbacks' = [locationUpdateCallbacks EXCEPT ![itemId] = NoCallback]
    /\ subscriptions' = [subscriptions EXCEPT ![s] = @ \ {itemId}]
    /\ lastCall' = Call("unsubscribe:" \o s, itemId, NoItem, NoLocation, NoLocation, NoUpdate, << >>)
    /\ UNCHANGED <<devices, vehicles, trackingUpdates, realTimeTracking,
                   trackingIntervals, timers, nextSeq>>
    /\ UNCHANGED besideTracking

----------------------------------------------------------------------------
(* TrackingService: queries *)

\* a TrackingUpdate with its "timestamp: new Date()", in seconds; only
\* getItemSpeed reads it
Stamped(update, timestamp) ==
    [seq |-> update.seq, itemId |-> update.itemId, itemType |-> update.itemType,
     location |-> update.location, source |-> update.source,
     timestamp |-> timestamp]

\* Array.prototype.slice(-n)
SliceLast(arr, n) ==
    IF Len(arr) <= n THEN arr ELSE SubSeq(arr, Len(arr) - n + 1, Len(arr))

\* "for (let i = 1; i < recent.length; i++) totalDistance += distance"
RECURSIVE TotalDistance(_, _)
TotalDistance(recent, i) ==
    IF i > Len(recent) THEN 0
    ELSE calculateDistance(recent[i-1].location, recent[i].location)
             + TotalDistance(recent, i + 1)

\* isItemMoving(itemId)
isItemMovingMutant(updatesOf, itemId) ==
    LET updates == updatesOf[itemId] IN
    IF Len(updates) < 2 THEN FALSE
    ELSE TotalDistance(updates, 2) > MovingMeters
isItemMoving(updatesOf, itemId) ==
    LET updates == updatesOf[itemId] IN
    IF Len(updates) < 2 THEN FALSE
    ELSE TotalDistance(SliceLast(updates, RecentCount), 2) > MovingMeters

\* number | null: null, or the quotient meters / seconds
NullSpeed == [kind |-> "null", meters |-> 0, seconds |-> 1]
Quotient(meters, seconds) == [kind |-> "number", meters |-> meters, seconds |-> seconds]

\* getItemSpeed(itemId)
getItemSpeed(updatesOf, itemId) ==
    LET updates == updatesOf[itemId] IN
    IF Len(updates) < 2 THEN NullSpeed
    ELSE LET recent == SliceLast(updates, 2)
             distance == calculateDistance(recent[1].location, recent[2].location)
             timeDiff == recent[2].timestamp - recent[1].timestamp
         IN IF timeDiff > 0 THEN Quotient(distance, timeDiff) ELSE Quotient(0, 1)

\* what a query returned
Answer(op, itemId, moving, speed) ==
    [op |-> op, itemId |-> itemId, moving |-> moving, speed |-> speed]

QueryIdle == answer = Answer("none", NoItem, FALSE, NullSpeed)

\* the marker popup asks whether the item is moving
AskIsItemMoving(itemId) ==
    /\ answer' = Answer("isItemMoving", itemId,
                        isItemMoving(trackingUpdates, itemId), NullSpeed)
    /\ UNCHANGED besideQuery

\* the marker popup asks for the item's speed
AskGetItemSpeed(itemId) ==
    /\ answer' = Answer("getItemSpeed", itemId, FALSE,
                        getItemSpeed(trackingUpdates, itemId))
    /\ UNCHANGED besideQuery

\* where the entries of a queried history lie: at 0 m, 25 m and 30 m
QueryLatitudes == {0, MovingMeters \div 2, (MovingMeters \div 2) + Step}

\* the history that updateItemLocation calls for device '1' at the given
\* latitudes leave, one second apart except for the last two, which are gap
\* seconds apart
ManualHistory(lats, gap) ==
    [k \in 1..Len(lats) |->
        Stamped(TrackingUpdate(k, "1", "device", Location(lats[k], "manual"),
                               "Manual Update"),
                IF k < Len(lats) \/ k = 1 THEN k ELSE k - 1 + gap)]

QueriedHistories ==
    UNION {[1..n -> QueryLatitudes] : n \in 0..MaxHistory}

\* the service after such a run of manual updates for device '1'
HistoryInit ==
    \E lats \in QueriedHistories, gap \in 0..MaxGap, l2, l3, l4 \in MockLatitudes :
        LET n == Len(lats) IN
        /\ devices = [i \in ItemIds |->
               IF i = "1"
               THEN [MockItem("lost", "gps", 0) EXCEPT !.currentLocation =
                        IF n = 0 THEN @ ELSE Location(lats[n], "manual")]
               ELSE MockItem("lost", "network", l2)]
        /\ vehicles = [i \in ItemIds |->
               IF i = "1" THEN MockItem("lost", "gps", l3)
               ELSE MockItem("found", "witness", l4)]
        /\ trackingUpdates = [i \in ItemIds |->
               IF i = "1" THEN ManualHistory(lats, gap) ELSE << >>]
        /\ locationUpdateCallbacks = [i \in ItemIds |-> NoCallback]
        /\ realTimeTracking = [i \in ItemIds |-> TRUE]
        /\ trackingIntervals = {}
        /\ timers = [i \in ItemIds |-> 1]
        /\ subscriptions = [s \in Subscribers |-> {}]
        /\ nextSeq = n
        /\ lastCall =
               IF n = 0
               THEN Call("constructor", NoItem, NoItem, NoLocation, NoLocation,
                         NoUpdate, << >>)
               ELSE Call("updateItemLocation", "1", "device",
                         Location(lats[n], "manual"),
                         IF n = 1 THEN Location(0, "gps")
                         ELSE Location(lats[n-1], "manual"),
                         n, << >>)

----------------------------------------------------------------------------
(* TrackingMap: the subscription effect *)

\* the maps considered, and the items each is given
Views == {"viewA"}

\* an entry of a view's Map: no entry, an array of the view's own, or the
\* array that getTrackingHistory returned, which is the one the service holds
NoArray == [ref |-> "none", own |-> << >>]
OwnArray(updates) == [ref |-> "own", own |-> updates]
ServiceArray == [ref |-> "service", own |-> << >>]

\* getTrackingHistory(itemId): "this.trackingUpdates.get(itemId) || []"
getTrackingHistory(updatesOf, itemId) ==
    IF updatesOf[itemId] = << >> THEN OwnArray(<< >>) ELSE ServiceArray

\* the elements of a view's array
ArrayOf(entry, updatesOf, itemId) ==
    IF entry.ref = "service" THEN updatesOf[itemId] ELSE entry.own

\* "if (updates.length > 50) updates.splice(0, updates.length - 50)"
KeepLastOfView(updates) ==
    IF Len(updates) > ViewCap
    THEN SubSeq(updates, Len(updates) - ViewCap + 1, Len(updates))
    ELSE updates

ViewIdle ==
    /\ viewUpdates = [s \in Subscribers |-> [i \in ItemIds |-> NoArray]]
    /\ viewSeen = [s \in Subscribers |-> NoUpdate]

\* the effect runs (on mount, and again whenever items changes): the cleanup
\* of the previous run unsubscribes its ids; then, for each item, subscribe
\* and, "if (history.length > 0)", keep the array getTrackingHistory returned
TrackingMapEffect(s) ==
    LET cleaned == [i \in ItemIds |->
                       IF i \in subscriptions[s] THEN NoCallback
                       ELSE locationUpdateCallbacks[i]]
        lastId == CHOOSE i \in SubscribedIds : TRUE
    IN
    /\ locationUpdateCallbacks' =
           [i \in ItemIds |-> IF i \in SubscribedIds THEN s ELSE cleaned[i]]
    /\ subscriptions' = [subscriptions EXCEPT ![s] = SubscribedIds]
    /\ viewUpdates' = [viewUpdates EXCEPT ![s] =
           [i \in ItemIds |->
               IF i \in SubscribedIds
                  /\ getTrackingHistory(trackingUpdates, i) = ServiceArray
               THEN ServiceArray ELSE @[i]]]
    /\ lastCall' = Call("subscribe:" \o s, lastId, NoItem, NoLocation, NoLocation,
                        NoUpdate, << >>)
    /\ UNCHANGED <<devices, vehicles, trackingUpdates, realTimeTracking,
                   trackingIntervals, timers, nextSeq, viewSeen>>
    /\ UNCHANGED besideView

\* the callback of a view was invoked with an update: its state updater
\* pushes the update onto the view's array for the item and cuts the array
\* to the view's cap
TrackingMapCallback(s) ==
    /\ \E k \in 1..Len(lastCall.invoked) :
           lastCall.invoked[k].callback = s /\ lastCall.invoked[k].update > viewSeen[s]
    /\ LET itemId == lastCall.itemId
           update == TrackingUpdate(lastCall.update, itemId, lastCall.itemType,
                         lastCall.sample,
                         IF lastCall.op = "tick" THEN "Real-time GPS"
                         ELSE "Manual Update")
           entry == viewUpdates[s][itemId]
           updates == KeepLastOfView(
                          Append(ArrayOf(entry, trackingUpdates, itemId), update))
       IN
       /\ IF entry.ref = "service"
          THEN /\ trackingUpdates' = [trackingUpdates EXCEPT ![itemId] = updates]
               /\ UNCHANGED viewUpdates
          ELSE /\ viewUpdates' = [viewUpdates EXCEPT ![s][itemId] = OwnArray(updates)]
               /\ UNCHANGED trackingUpdates
       /\ viewSeen' = [viewSeen EXCEPT ![s] = lastCall.update]
    /\ UNCHANGED <<devices, vehicles, locationUpdateCallbacks, realTimeTracking,
                   trackingIntervals, timers, subscriptions, nextSeq, lastCall>>
    /\ UNCHANGED besideView

----------------------------------------------------------------------------
(* GPSService and the tracking hook *)

\* an exception, where a call returns the number of an update
Exception == -1

\* "callback(update)" throws when the subscriber's callback does
Throws(invoked, bad) ==
    \E k \in 1..Len(invoked) : invoked[k].callback \in bad

\* what the updateItemLocation call recorded in call gave its caller:
\* "return update" or "return null", unless the callback threw
ReturnOf(call, bad) ==
    IF Throws(call.invoked, bad) THEN Exception ELSE call.update

\* an entry of GPSService.callbacks: the hook's callback for an item
HookCallback(itemId, itemType) == [itemId |-> itemId, itemType |-> itemType]

\* Map.prototype.set: a key that is present keeps its place
MapSet(entries, entry) ==
    IF \E k \in 1..Len(entries) : entries[k].itemId = entry.itemId
    THEN [k \in 1..Len(entries) |->
             IF entries[k].itemId = entry.itemId THEN entry ELSE entries[k]]
    ELSE Append(entries, entry)

\* hasSignificantChange(oldPos, newPos)
hasSignificantChange(oldPos, newPos) ==
    calculateDistance(oldPos, newPos) >= DistanceFilter

\* the service before any tracking: no watch, no callback, no position;
\* notified lists the items whose callback the last position was handed to,
\* watches counts the geolocation watches that are live in the browser, and
\* op is the method or callback of the service that ran last
GPSIdle ==
    /\ gpsService = [callbacks |-> << >>, isTracking |-> FALSE, watchId |-> 0,
                     lastKnownPosition |-> NoLocation, notified |-> << >>,
                     watches |-> 0, op |-> "constructor"]
    /\ faulty = {}

\* the same, for any set of subscribers whose callback throws
GPSIdleWithFaults ==
    /\ gpsService = [callbacks |-> << >>, isTracking |-> FALSE, watchId |-> 0,
                     lastKnownPosition |-> NoLocation, notified |-> << >>,
                     watches |-> 0, op |-> "constructor"]
    /\ faulty \in SUBSET Views

\* the hook's startTracking for an item: gpsService.startTracking(item.id, ...)
startTracking(itemId, itemType) ==
    /\ gpsService' = [gpsService EXCEPT
           !.callbacks = MapSet(@, HookCallback(itemId, itemType)),
           !.isTracking = TRUE,
           !.watchId = IF gpsService.isTracking THEN @ ELSE 1,
           !.watches = IF gpsService.isTracking THEN @ ELSE @ + 1,
           !.notified = << >>,
           !.op = "startTracking"]
    /\ UNCHANGED <<trackingVars, faulty>>
    /\ UNCHANGED besideGPS

\* "this.callbacks.forEach((callback) => callback(gpsPosition))": each hook
\* callback calls trackingService.updateItemLocation for its item; an
\* exception leaves the loop.  The result is the store and the items whose
\* callback was called.
RECURSIVE ForEachCallback(_, _, _, _, _, _)
ForEachCallback(entries, k, store, notified, position, env) ==
    IF k > Len(entries) THEN [store |-> store, notified |-> notified]
    ELSE LET after == ItemLocationUpdated(store, env.callbacks, entries[k].itemId,
                                          position, entries[k].itemType)
             called == Append(notified, entries[k].itemId)
         IN IF Throws(after.lastCall.invoked, env.faulty)
            THEN [store |-> after, notified |-> called]
            ELSE ForEachCallback(entries, k + 1, after, called, position, env)

\* the success callback of watchPosition
PositionReceived(lat) ==
    /\ gpsService.isTracking
    /\ LET gpsPosition == Location(lat, "gps") IN
       IF gpsService.lastKnownPosition = NoLocation
          \/ hasSignificantChange(gpsService.lastKnownPosition, gpsPosition)
       THEN LET done == ForEachCallback(gpsService.callbacks, 1,
                            Store(devices, vehicles, trackingUpdates, nextSeq, lastCall),
                            << >>, gpsPosition,
                            [callbacks |-> locationUpdateCallbacks, faulty |-> faulty])
            IN
            /\ done.store.nextSeq <= MaxUpdates
            /\ gpsService' = [gpsService EXCEPT !.lastKnownPosition = gpsPosition,
                                                !.notified = done.notified,
                                                !.op = "position"]
            /\ devices' = done.store.devices
            /\ vehicles' = done.store.vehicles
            /\ trackingUpdates' = done.store.trackingUpdates
            /\ nextSeq' = done.store.nextSeq
            /\ lastCall' = done.store.lastCall
       ELSE /\ gpsService' = [gpsService EXCEPT !.notified = << >>,
                                                !.op = "position"]
            /\ UNCHANGED <<devices, vehicles, trackingUpdates, nextSeq, lastCall>>
    /\ UNCHANGED <<locationUpdateCallbacks, realTimeTracking, trackingIntervals,
                   timers, subscriptions, faulty>>
    /\ UNCHANGED besideGPS

\* Map.prototype.delete
MapDelete(entries, itemId) ==
    SelectSeq(entries, LAMBDA entry : entry.itemId # itemId)

MapHas(entries, itemId) ==
    \E k \in 1..Len(entries) : entries[k].itemId = itemId

\* stopAllTracking(), as the service it leaves: clearWatch for the handle held
StoppedAllMutant(gps) ==
    [gps EXCEPT !.watches = IF gps.watchId # 0 THEN @ - 1 ELSE @,
                !.watchId = 0,
                !.callbacks = << >>]
StoppedAll(gps) ==
    [gps EXCEPT !.watches = IF gps.watchId # 0 THEN @ - 1 ELSE @,
                !.watchId = 0,
                !.isTracking = FALSE,
                !.callbacks = << >>]

\* stopTracking(itemId), as the service it leaves
StoppedMutant(gps, itemId) ==
    StoppedAll([gps EXCEPT !.callbacks = MapDelete(@, itemId)])
Stopped(gps, itemId) ==
    LET deleted == [gps EXCEPT !.callbacks = MapDelete(@, itemId)] IN
    IF Len(deleted.callbacks) = 0 /\ deleted.isTracking
    THEN StoppedAll(deleted)
    ELSE deleted

\* the hook's stopTracking for an item: gpsService.stopTracking(item.id)
stopTracking(itemId) ==
    /\ gpsService' = [Stopped(gpsService, itemId) EXCEPT !.notified = << >>,
                                                        !.op = "stopTracking"]
    /\ UNCHANGED <<trackingVars, faulty>>
    /\ UNCHANGED besideGPS

stopAllTracking ==
    /\ gpsService' = [StoppedAll(gpsService) EXCEPT !.notified = << >>,
                                                   !.op = "stopAllTracking"]
    /\ UNCHANGED <<trackingVars, faulty>>
    /\ UNCHANGED besideGPS

\* getCurrentPosition() resolves with a position
getCurrentPosition(lat) ==
    /\ gpsService' = [gpsService EXCEPT !.lastKnownPosition = Location(lat, "gps"),
                                        !.notified = << >>,
                                        !.op = "getCurrentPosition"]
    /\ UNCHANGED <<trackingVars, faulty>>
    /\ UNCHANGED besideGPS

\* "this.callbacks.forEach(...)" where callbacks leave during the iteration:
\* forEach visits, in insertion order, the entries of the list it started
\* with that are still in the map when their turn comes.  The hook callback
\* of an item in env.stoppers calls gpsService.stopTracking for its item after
\* updateItemLocation, whose subscriber callback unsubscribes when the
\* subscriber is in env.quitters.  run holds the store, the registry of
\* TrackingService, the GPS service and the items called so far.
RECURSIVE ForEachLive(_, _, _, _, _)
ForEachLive(entries, k, run, position, env) ==
    IF k > Len(entries) THEN run
    ELSE IF ~MapHas(run.gps.callbacks, entries[k].itemId)
    THEN ForEachLive(entries, k + 1, run, position, env)
    ELSE LET itemId == entries[k].itemId
             after == ItemLocationUpdated(run.store, run.callbacks, itemId,
                                          position, entries[k].itemType)
             invoked == after.lastCall.invoked
             called == Append(run.notified, itemId)
         IN IF Throws(invoked, env.faulty)
            THEN [run EXCEPT !.store = after, !.notified = called]
            ELSE ForEachLive(entries, k + 1,
                     [store |-> after,
                      callbacks |-> CallbacksAfter(run.callbacks, itemId, invoked,
                                                   env.quitters),
                      subscriptions |-> SubscriptionsAfter(run.subscriptions, itemId,
                                                           invoked, env.quitters),
                      gps |-> IF itemId \in env.stoppers
                              THEN Stopped(run.gps, itemId) ELSE run.gps,
                      notified |-> called],
                     position, env)

\* the success callback of watchPosition, with such callbacks
PositionReceivedByLeavers(lat, stoppers, quitters) ==
    /\ gpsService.watches > 0
    /\ LET gpsPosition == Location(lat, "gps") IN
       IF gpsService.lastKnownPosition = NoLocation
          \/ hasSignificantChange(gpsService.lastKnownPosition, gpsPosition)
       THEN LET done == ForEachLive(gpsService.callbacks, 1,
                            [store |-> Store(devices, vehicles, trackingUpdates,
                                             nextSeq, lastCall),
                             callbacks |-> locationUpdateCallbacks,
                             subscriptions |-> subscriptions,
                             gps |-> [gpsService EXCEPT
                                         !.lastKnownPosition = gpsPosition],
                             notified |-> << >>],
                            gpsPosition,
                            [faulty |-> faulty, stoppers |-> stoppers,
                             quitters |-> quitters])
            IN
            /\ done.store.nextSeq <= MaxUpdates
            /\ gpsService' = [done.gps EXCEPT !.notified = done.notified,
                                              !.op = "position"]
            /\ devices' = done.store.devices
            /\ vehicles' = done.store.vehicles
            /\ trackingUpdates' = done.store.trackingUpdates
            /\ nextSeq' = done.store.nextSeq
            /\ lastCall' = done.store.lastCall
            /\ locationUpdateCallbacks' = done.callbacks
            /\ subscriptions' = done.subscriptions
       ELSE /\ gpsService' = [gpsService EXCEPT !.notified = << >>,
                                                !.op = "position"]
            /\ UNCHANGED <<devices, vehicles, trackingUpdates, nextSeq, lastCall,
                           locationUpdateCallbacks, subscriptions>>
    /\ UNCHANGED <<realTimeTracking, trackingIntervals, timers, faulty>>
    /\ UNCHANGED besideGPS

----------------------------------------------------------------------------
(* MobileTrackingService: values *)

Undefined == "undefined"

\* a phone number is the sequence of its characters
SafaricomNumber == <<"+","2","5","4","7","0","1","0","0","0","0","0","0">>
AirtelNumber    == <<"+","2","5","4","7","3","3","0","0","0","0","0","0">>
TelkomNumber    == <<"+","2","5","4","7","7","1","0","0","0","0","0","0">>
UnlistedNumber  == <<"+","2","5","4","7","8","0","0","0","0","0","0","0">>
LocalNumber     == <<"0","7","0","1","0","0","0","0","0","0">>

Digits == {"0","1","2","3","4","5","6","7","8","9"}

\* the three prefix tables of identifyNetwork
SafaricomPrefixes ==
    {<<"7","0",d>> : d \in Digits \ {"0"}} \cup {<<"7","1",d>> : d \in Digits}
        \cup {<<"7","2",d>> : d \in Digits}
AirtelPrefixes == {<<"7","3",d>> : d \in Digits} \cup {<<"7","5",d>> : d \in Digits}
TelkomPrefixes == {<<"7","7",d>> : d \in Digits}

Networks == {"SAFARICOM", "AIRTEL", "TELKOM"}

\* String.prototype.replace(pattern, ''): the first occurrence only
RemoveFirst(str, pattern) ==
    LET n == Len(pattern)
        hits == {k \in 1..(Len(str) - n + 1) : SubSeq(str, k, k + n - 1) = pattern}
    IN IF hits = {} THEN str
       ELSE LET k == CHOOSE h \in hits : \A g \in hits : h <= g
            IN SubSeq(str, 1, k - 1) \o SubSeq(str, k + n, Len(str))

\* String.prototype.substring(0, n)
Substring0(str, n) == SubSeq(str, 1, IF Len(str) < n THEN Len(str) ELSE n)

identifyNetworkMutant(mobileNumber) ==
    LET prefix == Substring0(mobileNumber, 3)
    IN IF prefix \in SafaricomPrefixes THEN "SAFARICOM"
       ELSE IF prefix \in AirtelPrefixes THEN "AIRTEL"
       ELSE IF prefix \in TelkomPrefixes THEN "TELKOM"
       ELSE "UNKNOWN"
identifyNetwork(mobileNumber) ==
    LET number == RemoveFirst(mobileNumber, <<"+","2","5","4">>)
        prefix == Substring0(number, 3)
    IN IF prefix \in SafaricomPrefixes THEN "SAFARICOM"
       ELSE IF prefix \in AirtelPrefixes THEN "AIRTEL"
       ELSE IF prefix \in TelkomPrefixes THEN "TELKOM"
       ELSE "UNKNOWN"

\* the user table: officerId -> {role, isActive}; an id outside it is unknown
Users ==
    [police1 |-> [role |-> "POLICE", isActive |-> TRUE],
     admin1  |-> [role |-> "ADMIN",  isActive |-> TRUE],
     police2 |-> [role |-> "POLICE", isActive |-> FALSE],
     user1   |-> [role |-> "USER",   isActive |-> TRUE]]

OfficerIds == DOMAIN Users \cup {"nobody"}

RequestTypes == {"EMERGENCY", "COURT_ORDER", "CONSENT", "LOST_DEVICE"}

\* an optional string field: absent, empty, or filled
FieldValues == {Undefined, "", "filled"}

Request(number, type, officer, court, emergency, consent) ==
    [mobileNumber |-> number, requestType |-> type, officerId |-> officer,
     courtOrderNumber |-> court, emergencyCode |-> emergency,
     consentToken |-> consent]

NoRequest == Request(<< >>, Undefined, Undefined, Undefined, Undefined, Undefined)

\* MobileTrackingResult
Result(success, location, error, requestId) ==
    [success |-> success, location |-> location, error |-> error,
     requestId |-> requestId]

NoResult == Result(FALSE, Undefined, Undefined, Undefined)

UnauthorizedError == "Unauthorized tracking request"
UnknownNetworkError == "Unknown network provider"
StoreError == "store error"

NotConfiguredError(network) ==
    IF network = "SAFARICOM" THEN "Safaricom API not configured"
    ELSE IF network = "AIRTEL" THEN "Airtel API not configured"
    ELSE "Telkom API not configured"

\* generateMockLocation(): a random point around Nairobi
MockLocations == {"pointA", "pointB"}

\* ids that prisma gives to the rows, in creation order
RequestRowId(n) == <<"req1", "req2", "req3", "req4">>[n]
LocationRowId(n) == <<"loc1", "loc2", "loc3", "loc4">>[n]

CallIds == 1..MaxCalls

\* a call: where it is suspended, its request, the outcome of the officer
\* lookup, the row it created, the carrier resolved, the carrier's result,
\* the id of the location it saved, and what it returned
IdleCall ==
    [pc |-> "idle", request |-> NoRequest, lookup |-> "none",
     trackingRequestId |-> Undefined, network |-> Undefined,
     trackingResult |-> NoResult, point |-> Undefined, address |-> Undefined,
     result |-> NoResult]

(* MobileTrackingService: operations *)

\* validateTrackingRequest, given the row findUnique resolved with
validateTrackingRequestMutant(request) ==
    LET known == request.officerId \in DOMAIN Users IN
    IF ~known THEN FALSE
    ELSE CASE request.requestType = "EMERGENCY" -> request.emergencyCode # Undefined
           [] request.requestType = "COURT_ORDER" -> request.courtOrderNumber # Undefined
           [] request.requestType = "CONSENT" -> request.consentToken # Undefined
           [] request.requestType = "LOST_DEVICE" -> TRUE
           [] OTHER -> FALSE
validateTrackingRequest(request) ==
    LET known == request.officerId \in DOMAIN Users IN
    IF ~known \/ ~Users[request.officerId].isActive THEN FALSE
    ELSE IF Users[request.officerId].role \notin {"POLICE", "ADMIN"} THEN FALSE
    ELSE CASE request.requestType = "EMERGENCY" -> request.emergencyCode # Undefined
           [] request.requestType = "COURT_ORDER" -> request.courtOrderNumber # Undefined
           [] request.requestType = "CONSENT" -> request.consentToken # Undefined
           [] request.requestType = "LOST_DEVICE" -> TRUE
           [] OTHER -> FALSE

\* the catch block of trackMobileNumber
CaughtMutant(call, message) ==
    [call EXCEPT !.pc = "thrown", !.result = Result(FALSE, Undefined, message, "")]
Caught(call, message) ==
    [call EXCEPT !.pc = "returned", !.result = Result(FALSE, Undefined, message, "")]

\* prisma.mobileTrackingRequest.create: the row as created, no outcome yet
NewRequestRow(id, request) ==
    [id |-> id, mobileNumber |-> request.mobileNumber,
     requestType |-> request.requestType, officerId |-> request.officerId,
     success |-> FALSE, network |-> Undefined, error |-> Undefined,
     locationId |-> Undefined, outcomeWrites |-> 0]

\* prisma.mobileTrackingRequest.update({ where: { id }, data })
UpdateRowMutant(rows, id, success, network, error, locationId) ==
    [k \in 1..Len(rows) |->
        IF rows[k].id = id
        THEN [rows[k] EXCEPT !.success = success, !.network = network,
                             !.error = error, !.outcomeWrites = @ + 1]
        ELSE rows[k]]
UpdateRow(rows, id, success, network, error, locationId) ==
    [k \in 1..Len(rows) |->
        IF rows[k].id = id
        THEN [rows[k] EXCEPT !.success = success, !.network = network,
                             !.error = error, !.locationId = locationId,
                             !.outcomeWrites = @ + 1]
        ELSE rows[k]]

\* environment and store at start-up
MobileIdle ==
    /\ apiKeys = {}
    /\ calls = [c \in CallIds |-> IdleCall]
    /\ mobileTrackingRequests = << >>
    /\ locations = << >>

MobileInit ==
    /\ apiKeys \in SUBSET Networks
    /\ calls = [c \in CallIds |-> IdleCall]
    /\ mobileTrackingRequests = << >>
    /\ locations = << >>

\* trackMobileNumber(request) up to "await prisma.user.findUnique"
trackMobileNumber(c, request) ==
    /\ calls[c].pc = "idle"
    /\ calls' = [calls EXCEPT ![c] = [@ EXCEPT !.pc = "findOfficer",
                                               !.request = request]]
    /\ UNCHANGED <<apiKeys, mobileTrackingRequests, locations>>
    /\ UNCHANGED besideMobile

\* findUnique settles: validateTrackingRequest returns or throws, and an
\* authorized call goes on to "await prisma.mobileTrackingRequest.create"
OfficerFound(c) ==
    /\ calls[c].pc = "findOfficer"
    /\ \/ calls' = [calls EXCEPT ![c] =
                       IF validateTrackingRequest(calls[c].request)
                       THEN [@ EXCEPT !.pc = "createRequest", !.lookup = "resolved"]
                       ELSE Caught([@ EXCEPT !.lookup = "resolved"], UnauthorizedError)]
       \/ calls' = [calls EXCEPT ![c] =
                       Caught([@ EXCEPT !.lookup = "rejected"], StoreError)]
    /\ UNCHANGED <<apiKeys, mobileTrackingRequests, locations>>
    /\ UNCHANGED besideMobile

\* create settles: identifyNetwork, then the carrier adapter up to its delay
\* (or its own catch when the key is missing), or the throw on an unknown carrier
RequestCreated(c) ==
    /\ calls[c].pc = "createRequest"
    /\ \/ LET id == RequestRowId(Len(mobileTrackingRequests) + 1)
              network == identifyNetwork(calls[c].request.mobileNumber)
          IN
          /\ mobileTrackingRequests' =
                 Append(mobileTrackingRequests, NewRequestRow(id, calls[c].request))
          /\ calls' = [calls EXCEPT ![c] =
                 IF network \notin Networks
                 THEN Caught([@ EXCEPT !.trackingRequestId = id, !.network = network],
                             UnknownNetworkError)
                 ELSE IF network \notin apiKeys
                 THEN [@ EXCEPT !.trackingRequestId = id, !.network = network,
                          !.trackingResult =
                              Result(FALSE, Undefined, NotConfiguredError(network), id),
                          !.pc = "updateRequest"]
                 ELSE [@ EXCEPT !.trackingRequestId = id, !.network = network,
                                !.pc = "carrier"]]
       \/ /\ calls' = [calls EXCEPT ![c] = Caught(@, StoreError)]
          /\ UNCHANGED mobileTrackingRequests
    /\ UNCHANGED <<apiKeys, locations>>
    /\ UNCHANGED besideMobile

\* the simulated carrier delay ends: the adapter returns a mock location, and
\* the update's data asks saveLocation, up to "await reverseGeocode"
CarrierAnswered(c) ==
    /\ calls[c].pc = "carrier"
    /\ \E point \in MockLocations :
         calls' = [calls EXCEPT ![c] =
             [@ EXCEPT !.trackingResult =
                           Result(TRUE, point, Undefined, calls[c].trackingRequestId),
                       !.pc = "reverseGeocode"]]
    /\ UNCHANGED <<apiKeys, mobileTrackingRequests, locations>>
    /\ UNCHANGED besideMobile

\* reverseGeocode settles with an address or null (it catches its own
\* errors), up to "await prisma.location.create"
Geocoded(c) ==
    /\ calls[c].pc = "reverseGeocode"
    /\ \E address \in {Undefined, "address"} :
         calls' = [calls EXCEPT ![c] =
             [@ EXCEPT !.address = address, !.pc = "createLocation"]]
    /\ UNCHANGED <<apiKeys, mobileTrackingRequests, locations>>
    /\ UNCHANGED besideMobile

\* location.create settles: saveLocation returns the id, up to
\* "await prisma.mobileTrackingRequest.update"
LocationCreated(c) ==
    /\ calls[c].pc = "createLocation"
    /\ \/ LET id == LocationRowId(Len(locations) + 1) IN
          /\ locations' = Append(locations,
                 [id |-> id, point |-> calls[c].trackingResult.location,
                  address |-> calls[c].address, source |-> "NETWORK"])
          /\ calls' = [calls EXCEPT ![c] =
                 [@ EXCEPT !.point = id, !.pc = "updateRequest"]]
       \/ /\ calls' = [calls EXCEPT ![c] = Caught(@, StoreError)]
          /\ UNCHANGED locations
    /\ UNCHANGED <<apiKeys, mobileTrackingRequests>>
    /\ UNCHANGED besideMobile

\* update settles: "return { ...trackingResult, requestId: trackingRequest.id }"
RequestUpdated(c) ==
    /\ calls[c].pc = "updateRequest"
    /\ \/ /\ mobileTrackingRequests' =
                 UpdateRow(mobileTrackingRequests, calls[c].trackingRequestId,
                           calls[c].trackingResult.success, calls[c].network,
                           calls[c].trackingResult.error, calls[c].point)
          /\ calls' = [calls EXCEPT ![c] =
                 [@ EXCEPT !.pc = "returned",
                           !.result = [calls[c].trackingResult EXCEPT
                                          !.requestId = calls[c].trackingRequestId]]]
       \/ /\ calls' = [calls EXCEPT ![c] = Caught(@, StoreError)]
          /\ UNCHANGED mobileTrackingRequests
    /\ UNCHANGED <<apiKeys, locations>>
    /\ UNCHANGED besideMobile

Settle(c) ==
    \/ OfficerFound(c)
    \/ RequestCreated(c)
    \/ CarrierAnswered(c)
    \/ Geocoded(c)
    \/ LocationCreated(c)
    \/ RequestUpdated(c)

\* the requests of the authorization check: every officer, every request
\* type and one that is none of them, every combination of the three fields
AuthNumbers == {SafaricomNumber, UnlistedNumber}
AuthRequests ==
    {Request(n, t, o, co, em, ct) :
        n \in AuthNumbers, t \in RequestTypes \cup {"OTHER"}, o \in OfficerIds,
        co \in FieldValues, em \in FieldValues, ct \in FieldValues}

\* the requests of the pipeline: a lost-device lookup by a police officer or
\* by a plain user, for a number of each carrier and of none
PipelineNumbers == {SafaricomNumber, AirtelNumber, TelkomNumber, UnlistedNumber, LocalNumber}
PipelineRequests ==
    {Request(n, "LOST_DEVICE", o, Undefined, Undefined, Undefined) :
        n \in PipelineNumbers, o \in {"police1", "user1"}}

----------------------------------------------------------------------------
(* Socket server: the 'location:update' handler *)

MessageIds == 1..MaxMessages

\* the payload { itemId, itemType, location }; 'other' is an itemType that is
\* neither 'device' nor 'vehicle'
LocationUpdateData(itemId, itemType, point, source) ==
    [itemId |-> itemId, itemType |-> itemType,
     location |-> [point |-> point, source |-> source]]

NoData == LocationUpdateData(NoItem, NoItem, Undefined, Undefined)

\* a message being handled: where it is suspended, its payload and the
\* locationRecord it created
IdleMessage == [pc |-> "idle", data |-> NoData, locationRecord |-> Undefined]

\* "source: location.source || 'GPS'"
SourceOrGPS(source) == IF source = Undefined THEN "GPS" ELSE source

\* the sockets that connect: one of a POLICE user and one of a plain USER
Clients == {"officer", "owner"}
RoleOf(client) == IF client = "officer" THEN "POLICE" ELSE "USER"

\* room names
UserRoom(client) == "user:" \o client
ItemRoom(itemId) == "item:" \o itemId

\* io.to(room).emit(...): the sockets that are in the room; socket.emit(...)
\* goes to the socket that sent the message, which is none of Clients
Recipients(joined, room) == {c \in DOMAIN joined : room \in joined[c]}

\* io.to('security').emit('location:updated', ...) and socket.emit('error', ...)
LocationUpdatedEvent(data, locationRecord) ==
    [to |-> "security", event |-> "location:updated", itemId |-> data.itemId,
     itemType |-> data.itemType, location |-> locationRecord]
ErrorEvent(data) ==
    [to |-> "socket", event |-> "error", itemId |-> data.itemId,
     itemType |-> data.itemType, location |-> Undefined]

\* an emitted event with the sockets it reached
Sent(joined, ev) ==
    [to |-> ev.to, event |-> ev.event, itemId |-> ev.itemId,
     itemType |-> ev.itemType, location |-> ev.location,
     recipients |-> Recipients(joined, ev.to)]

\* the store and the server at start-up: every item row exists and has no
\* current location
SocketIdle ==
    /\ socketCalls = [m \in MessageIds |-> IdleMessage]
    /\ trackingUpdateRows = << >>
    /\ currentLocationIds = [t \in ItemTypes |-> [i \in ItemIds |-> Undefined]]
    /\ emitted = << >>
    /\ rooms = [c \in Clients |-> {}]

\* socket.on('location:update', async (data) => ...) up to
\* "await prisma.location.create"
locationUpdate(m, data) ==
    /\ socketCalls[m].pc = "idle"
    /\ socketCalls' = [socketCalls EXCEPT ![m] =
           [@ EXCEPT !.pc = "createLocation", !.data = data]]
    /\ UNCHANGED <<locations, trackingUpdateRows, currentLocationIds, emitted, rooms>>
    /\ UNCHANGED besideSocket

\* location.create settles, up to "await prisma.trackingUpdate.create"
SocketLocationCreated(m) ==
    /\ socketCalls[m].pc = "createLocation"
    /\ \/ LET id == LocationRowId(Len(locations) + 1) IN
          /\ locations' = Append(locations,
                 [id |-> id, point |-> socketCalls[m].data.location.point,
                  address |-> Undefined,
                  source |-> SourceOrGPS(socketCalls[m].data.location.source)])
          /\ socketCalls' = [socketCalls EXCEPT ![m] =
                 [@ EXCEPT !.locationRecord = id, !.pc = "createTrackingUpdate"]]
          /\ UNCHANGED emitted
       \/ /\ socketCalls' = [socketCalls EXCEPT ![m] = [@ EXCEPT !.pc = "failed"]]
          /\ emitted' = Append(emitted, Sent(rooms, ErrorEvent(socketCalls[m].data)))
          /\ UNCHANGED locations
    /\ UNCHANGED <<trackingUpdateRows, currentLocationIds, rooms>>
    /\ UNCHANGED besideSocket

\* trackingUpdate.create settles, up to "await prisma.device.update" or
\* "await prisma.vehicle.update"; for another itemType the handler goes
\* straight to the broadcast
SocketTrackingUpdateCreated(m) ==
    /\ socketCalls[m].pc = "createTrackingUpdate"
    /\ \/ /\ trackingUpdateRows' = Append(trackingUpdateRows,
                 [itemId |-> socketCalls[m].data.itemId,
                  itemType |-> socketCalls[m].data.itemType,
                  locationId |-> socketCalls[m].locationRecord,
                  source |-> "Real-time GPS"])
          /\ IF socketCalls[m].data.itemType \in ItemTypes
             THEN /\ socketCalls' = [socketCalls EXCEPT ![m] =
                         [@ EXCEPT !.pc = "updateItem"]]
                  /\ UNCHANGED emitted
             ELSE /\ socketCalls' = [socketCalls EXCEPT ![m] = [@ EXCEPT !.pc = "done"]]
                  /\ emitted' = Append(emitted, Sent(rooms,
                         LocationUpdatedEvent(socketCalls[m].data,
                                              socketCalls[m].locationRecord)))
       \/ /\ socketCalls' = [socketCalls EXCEPT ![m] = [@ EXCEPT !.pc = "failed"]]
          /\ emitted' = Append(emitted, Sent(rooms, ErrorEvent(socketCalls[m].data)))
          /\ UNCHANGED trackingUpdateRows
    /\ UNCHANGED <<locations, currentLocationIds, rooms>>
    /\ UNCHANGED besideSocket

\* device.update / vehicle.update settles: the broadcast to 'security'
SocketItemUpdated(m) ==
    /\ socketCalls[m].pc = "updateItem"
    /\ \/ /\ currentLocationIds' = [currentLocationIds EXCEPT
                 ![socketCalls[m].data.itemType][socketCalls[m].data.itemId] =
                     socketCalls[m].locationRecord]
          /\ socketCalls' = [socketCalls EXCEPT ![m] = [@ EXCEPT !.pc = "done"]]
          /\ emitted' = Append(emitted, Sent(rooms,
                 LocationUpdatedEvent(socketCalls[m].data,
                                      socketCalls[m].locationRecord)))
       \/ /\ socketCalls' = [socketCalls EXCEPT ![m] = [@ EXCEPT !.pc = "failed"]]
          /\ emitted' = Append(emitted, Sent(rooms, ErrorEvent(socketCalls[m].data)))
          /\ UNCHANGED currentLocationIds
    /\ UNCHANGED <<locations, trackingUpdateRows, rooms>>
    /\ UNCHANGED besideSocket

\* io.on('connection'): the socket joins its user room and, for ADMIN and
\* POLICE, 'security'
connection(c) ==
    /\ rooms[c] = {}
    /\ rooms' = [rooms EXCEPT ![c] =
           IF RoleOf(c) \in {"ADMIN", "POLICE"}
           THEN {UserRoom(c), "security"} ELSE {UserRoom(c)}]
    /\ UNCHANGED <<locations, socketCalls, trackingUpdateRows, currentLocationIds,
                   emitted>>
    /\ UNCHANGED besideSocket

\* socket.on('subscribe:item', (itemId) => socket.join(`item:${itemId}`))
subscribeItem(c, itemId) ==
    /\ rooms[c] # {}
    /\ rooms' = [rooms EXCEPT ![c] = @ \cup {ItemRoom(itemId)}]
    /\ UNCHANGED <<locations, socketCalls, trackingUpdateRows, currentLocationIds,
                   emitted>>
    /\ UNCHANGED besideSocket

\* socket.on('unsubscribe:item', (itemId) => socket.leave(`item:${itemId}`))
unsubscribeItem(c, itemId) ==
    /\ rooms[c] # {}
    /\ rooms' = [rooms EXCEPT ![c] = @ \ {ItemRoom(itemId)}]
    /\ UNCHANGED <<locations, socketCalls, trackingUpdateRows, currentLocationIds,
                   emitted>>
    /\ UNCHANGED besideSocket

SocketSettle(m) ==
    \/ SocketLocationCreated(m)
    \/ SocketTrackingUpdateCreated(m)
    \/ SocketItemUpdated(m)

\* the payloads considered: device '1' and vehicle '1', an itemType that is
\* neither, two points, with and without a source
SocketData ==
    {LocationUpdateData("1", t, point, src) :
        t \in ItemTypes \cup {"other"}, point \in MockLocations,
        src \in {Undefined, "MANUAL"}}

----------------------------------------------------------------------------
(* helpers.ts: retryWithBackoff *)

\* the baseDelay arguments considered, in milliseconds (1000 is the default)
BaseDelays == {500, 1000}

\* Math.pow(2, attempt)
RECURSIVE Pow2(_)
Pow2(n) == IF n <= 0 THEN 1 ELSE 2 * Pow2(n - 1)

\* "const delay = baseDelay * Math.pow(2, attempt)"
BackoffDelayMutant(baseDelay, attempt) == baseDelay * 2 * attempt
BackoffDelay(baseDelay, attempt) == baseDelay * Pow2(attempt)

\* how a call of fn may settle: it resolves with a value or rejects with an
\* error
FnOutcomes ==
    {[ok |-> TRUE, with |-> v] : v \in {"valueA", "valueB"}}
        \cup {[ok |-> FALSE, with |-> e] : e \in {"errorA", "errorB"}}

\* the call: where it is suspended, its arguments, the loop counter, the
\* outcome of every call of fn so far, the delays slept so far, lastError and
\* what the call settled with
IdleRetry ==
    [pc |-> "idle", maxRetries |-> 0, baseDelay |-> 0, attempt |-> 0,
     outcomes |-> << >>, slept |-> << >>, lastError |-> "undefined",
     settled |-> "undefined"]

RetryIdle == retry = IdleRetry

\* "for (...; attempt < maxRetries; ...)": the next call of fn, or the throw
\* after the loop
LoopTest(r) ==
    IF r.attempt < r.maxRetries
    THEN [r EXCEPT !.pc = "fn"]
    ELSE [r EXCEPT !.pc = "rejected", !.settled = r.lastError]

\* retryWithBackoff(fn, maxRetries, baseDelay) up to "await fn()"
retryWithBackoff(maxRetries, baseDelay) ==
    /\ retry.pc = "idle"
    /\ retry' = LoopTest([retry EXCEPT !.maxRetries = maxRetries,
                                       !.baseDelay = baseDelay])
    /\ UNCHANGED besideRetry

\* fn() settles: "return await fn()", or the catch block up to "await sleep(delay)"
FnSettled(outcome) ==
    /\ retry.pc = "fn"
    /\ retry' =
           IF outcome.ok
           THEN [retry EXCEPT !.outcomes = Append(@, outcome),
                              !.pc = "resolved", !.settled = outcome.with]
           ELSE IF retry.attempt = retry.maxRetries - 1
           THEN [retry EXCEPT !.outcomes = Append(@, outcome),
                              !.lastError = outcome.with,
                              !.pc = "rejected", !.settled = outcome.with]
           ELSE [retry EXCEPT !.outcomes = Append(@, outcome),
                              !.lastError = outcome.with,
                              !.slept = Append(@, BackoffDelay(retry.baseDelay,
                                                               retry.attempt)),
                              !.pc = "sleep"]
    /\ UNCHANGED besideRetry

\* sleep(delay) settles: "attempt++" and the loop test
SleepSettled ==
    /\ retry.pc = "sleep"
    /\ retry' = LoopTest([retry EXCEPT !.attempt = @ + 1])
    /\ UNCHANGED besideRetry

----------------------------------------------------------------------------
(* Specifications *)

\* the state after construction: the tracking service with its mock data, the
\* mobile tracking service idle and no carrier key set
Init ==
    TrackingInit /\ QueryIdle /\ ViewIdle /\ GPSIdle /\ MobileIdle /\ SocketIdle
        /\ RetryIdle

\* the same, for any set of carrier keys in the environment
InitWithKeys ==
    TrackingInit /\ QueryIdle /\ ViewIdle /\ GPSIdle /\ MobileInit /\ SocketIdle
        /\ RetryIdle

\* the state after a run of manual updates for device '1'
InitWithHistory ==
    HistoryInit /\ QueryIdle /\ ViewIdle /\ GPSIdle /\ MobileIdle /\ SocketIdle
        /\ RetryIdle

\* the state after construction, for any set of subscribers whose callback throws
InitWithFaults ==
    TrackingInit /\ QueryIdle /\ ViewIdle /\ GPSIdleWithFaults /\ MobileIdle /\ SocketIdle
        /\ RetryIdle

Ticks == \E i \in ItemIds : updateItemLocationRealTime(i)

\* the store under simulated ticks and manual updates
TrackingNext ==
    \/ Ticks
    \/ \E i \in ItemIds, lat \in Latitudes, t \in ItemTypes :
           updateItemLocation(i, Location(lat, "manual"), t)

Spec == Init /\ [][TrackingNext]_vars

\* the simulated source under status and activation changes
SourceNext ==
    \/ Ticks
    \/ \E i \in UpdatedIds, u \in UpdateInputs : updateDevice(i, u)
    \/ \E i \in UpdatedIds, u \in UpdateInputs : updateVehicle(i, u)

SourceSpec == Init /\ [][SourceNext]_vars

\* the subscriber registry under ticks and manual updates of the watched devices
BusNext ==
    \/ Ticks
    \/ \E i \in SubscribedIds, lat \in Latitudes :
           updateItemLocation(i, Location(lat, "manual"), "device")
    \/ \E s \in Subscribers, i \in SubscribedIds : subscribeToLocationUpdates(s, i)
    \/ \E s \in Subscribers, i \in SubscribedIds : unsubscribeFromLocationUpdates(s, i)

BusSpec == Init /\ [][BusNext]_vars

\* one trackMobileNumber call, over the requests of the authorization check
AuthNext ==
    \/ \E r \in AuthRequests : trackMobileNumber(1, r)
    \/ Settle(1)

AuthSpec == InitWithKeys /\ [][AuthNext]_vars

\* concurrent trackMobileNumber calls, over the requests of the pipeline
MobileNext ==
    \/ \E c \in CallIds, r \in PipelineRequests : trackMobileNumber(c, r)
    \/ \E c \in CallIds : Settle(c)

MobileSpec == InitWithKeys /\ [][MobileNext]_vars

\* a map over the watched items, under ticks and manual updates of them
ViewNext ==
    \/ Ticks
    \/ \E i \in SubscribedIds, lat \in Latitudes :
           updateItemLocation(i, Location(lat, "manual"), "device")
    \/ \E s \in Views : TrackingMapEffect(s)
    \/ \E s \in Views : TrackingMapCallback(s)

ViewSpec == Init /\ [][ViewNext]_vars

\* simulated ticks, device-GPS positions for the devices and manual updates,
\* with a subscriber on the watched device
FaultNext ==
    \/ Ticks
    \/ \E i \in ItemIds : startTracking(i, "device")
    \/ \E lat \in Latitudes : PositionReceived(lat)
    \/ \E i \in SubscribedIds, lat \in Latitudes :
           updateItemLocation(i, Location(lat, "manual"), "device")
    \/ \E s \in Views, i \in SubscribedIds : subscribeToLocationUpdates(s, i)

FaultSpec == InitWithFaults /\ [][FaultNext]_vars

\* the queries, asked about the history of device '1'
QueryNext ==
    \/ AskIsItemMoving("1")
    \/ AskGetItemSpeed("1")

QuerySpec == InitWithHistory /\ [][QueryNext]_vars

\* the same, where every store call and the carrier delay of a call that is
\* waiting for one settles
MobileFairSpec ==
    InitWithKeys /\ [][MobileNext]_vars /\ \A c \in CallIds : WF_vars(Settle(c))

\* concurrent 'location:update' messages
SocketNext ==
    \/ \E m \in MessageIds, data \in SocketData : locationUpdate(m, data)
    \/ \E m \in MessageIds : SocketSettle(m)

SocketSpec == Init /\ [][SocketNext]_vars

\* 'location:update' messages for device '1' while sockets connect and
\* subscribe to it
RoomData == {LocationUpdateData("1", "device", point, Undefined) : point \in MockLocations}

RoomNext ==
    \/ \E c \in Clients : connection(c)
    \/ \E c \in Clients, i \in SubscribedIds : subscribeItem(c, i)
    \/ \E c \in Clients, i \in SubscribedIds : unsubscribeItem(c, i)
    \/ \E m \in MessageIds, data \in RoomData : locationUpdate(m, data)
    \/ \E m \in MessageIds : SocketSettle(m)

RoomSpec == Init /\ [][RoomNext]_vars

\* ticks and device-GPS positions, delivered to callbacks that may leave
\* while they are invoked
DispatchNext ==
    \/ \E s \in Views, i \in SubscribedIds : subscribeToLocationUpdates(s, i)
    \/ \E i \in SubscribedIds, quitters \in SUBSET Views : RealTimeTick(i, quitters)
    \/ \E i \in ItemIds : startTracking(i, "device")
    \/ \E lat \in Latitudes, stoppers \in SUBSET ItemIds, quitters \in SUBSET Views :
           PositionReceivedByLeavers(lat, stoppers, quitters)

DispatchSpec == Init /\ [][DispatchNext]_vars

\* the GPS service under the hook's calls for the devices, one-off position
\* requests and the positions of the watch
GPSNext ==
    \/ \E i \in ItemIds : startTracking(i, "device")
    \/ \E i \in ItemIds : stopTracking(i)
    \/ stopAllTracking
    \/ \E lat \in Latitudes : getCurrentPosition(lat)
    \/ \E lat \in Latitudes : PositionReceived(lat)

GPSSpec == Init /\ [][GPSNext]_vars

\* the three live sources: simulated ticks, manual updates and the
\* device-GPS samples of the hook, for the device and the vehicle '1'
LiveNext ==
    \/ \E i \in UpdatedIds : updateItemLocationRealTime(i)
    \/ \E i \in UpdatedIds, lat \in Latitudes, t \in ItemTypes :
           updateItemLocation(i, Location(lat, "manual"), t)
    \/ \E i \in UpdatedIds : startTracking(i, "device")
    \/ \E lat \in Latitudes : PositionReceived(lat)

LiveSpec == Init /\ [][LiveNext]_vars

\* one retryWithBackoff call, for every outcome of every call of fn
RetryNext ==
    \/ \E n \in 0..MaxRetries, d \in BaseDelays : retryWithBackoff(n, d)
    \/ \E outcome \in FnOutcomes : FnSettled(outcome)
    \/ SleepSettled

RetrySpec == Init /\ [][RetryNext]_vars

----------------------------------------------------------------------------
(* Properties of TrackingService *)

Last(seq) == seq[Len(seq)]

Accepted == lastCall.update # NoUpdate

Ingested == lastCall.op \in {"tick", "updateItemLocation"}

ActiveAndLost(item) == item.isActive = TRUE /\ item.status = "lost"

\* the number of invocations of subscriber s's callback made by the last handler
Invocations(s) ==
    Cardinality({k \in 1..Len(lastCall.invoked) : lastCall.invoked[k].callback = s})

\* C1: after any sequence of accepted updates (simulated ticks and
\* updateItemLocation calls, in any order) no history holds more entries than
\* the cap
C1_HistoryWithinCap ==
    \A i \in ItemIds : Len(trackingUpdates[i]) <= HistoryCap

\* C2: on every ingestion path, a sample submitted for an entity that has a
\* current location is committed only if it lies at least the threshold away
\* from that current location
C2_CommittedOnlyIfSignificant ==
    (Ingested /\ Accepted /\ lastCall.prev # NoLocation)
        => calculateDistance(lastCall.prev, lastCall.sample) >= SignificantMeters

\* C3: for each entity whose history is non-empty, its currentLocation is the
\* location of the last entry of its history
C3_CurrentIsLastAccepted ==
    \A t \in ItemTypes, i \in ItemIds :
        (HasItem(devices, vehicles, t, i) /\ trackingUpdates[i] # << >>)
            => ItemOf(devices, vehicles, t, i).currentLocation
                   = Last(trackingUpdates[i]).location

\* C4: the callback registered for e is invoked exactly once for each update
\* accepted for e, with that update; no callback is invoked twice for one
\* update (a re-subscription replaces), none is invoked by a handler that
\* accepted nothing, and a subscriber that has unsubscribed from e is not
\* invoked for later updates of e
C4_ExactlyOncePerAcceptedUpdate ==
    /\ ~Accepted => lastCall.invoked = << >>
    /\ Accepted =>
         /\ \A k \in 1..Len(lastCall.invoked) :
                lastCall.invoked[k].update = lastCall.update
         /\ \A s \in Subscribers :
              /\ Invocations(s) <= 1
              /\ locationUpdateCallbacks[lastCall.itemId] = s => Invocations(s) = 1
              /\ lastCall.itemId \notin subscriptions[s] => Invocations(s) = 0

C4_Witness ==
    /\ Accepted
    /\ lastCall.itemId = "1"
    /\ locationUpdateCallbacks["1"] = "viewA"
    /\ Invocations("viewA") = 1
    /\ subscriptions["viewB"] = {}
    /\ nextSeq >= 2

\* C5: when two subscriber contexts have subscribed to the same entity and
\* neither has unsubscribed, every update accepted for it is delivered to both
C5_EverySubscriberReceives ==
    Accepted =>
        \A s \in Subscribers :
            lastCall.itemId \in subscriptions[s] => Invocations(s) >= 1

\* C6: unsubscribe(e) by one subscriber removes only that subscriber's
\* registration: a callback of another subscriber registered for e stays
\* registered, and a caller without a registration changes nothing
C6_UnsubscribeIsPerSubscriber ==
    [][\A s \in Subscribers, i \in ItemIds :
          (lastCall'.op = "unsubscribe:" \o s /\ lastCall'.itemId = i
              /\ locationUpdateCallbacks[i] # s)
          => locationUpdateCallbacks'[i] = locationUpdateCallbacks[i]]_vars

\* C7: a simulated tick generates, stores and delivers a sample only for an
\* entity that is active and lost; for an entity that is not, a tick leaves
\* the entity and the histories as they are and invokes no callback, until
\* the entity is active and lost again
C7_OnlyActiveLostAreSourced ==
    [][lastCall'.op = "tick" =>
          \A t \in ItemTypes, i \in ItemIds :
              (HasItem(devices, vehicles, t, i)
                  /\ ~ActiveAndLost(ItemOf(devices, vehicles, t, i)))
              => /\ ItemOf(devices', vehicles', t, i) = ItemOf(devices, vehicles, t, i)
                 /\ (trackingUpdates'[i] # trackingUpdates[i]
                        => Last(trackingUpdates'[i]).itemType # t)
                 /\ (lastCall'.itemType = t /\ lastCall'.itemId = i)
                        => /\ lastCall'.sample = NoLocation
                           /\ lastCall'.update = NoUpdate
                           /\ lastCall'.invoked = << >>
                           /\ trackingUpdates' = trackingUpdates]_vars

C7_Witness ==
    /\ lastCall.op = "tick"
    /\ lastCall.itemId = "1"
    /\ lastCall.itemType = "device"
    /\ ~ActiveAndLost(devices["1"])
    /\ trackingUpdates["1"] # << >>
    /\ timers["1"] > 0

\* the metres between consecutive entries lo..hi of a history, summed
RECURSIVE PathLength(_, _, _)
PathLength(history, lo, hi) ==
    IF hi <= lo THEN 0
    ELSE PathLength(history, lo, hi - 1)
           + Abs(history[hi].location.latitude - history[hi-1].location.latitude)

\* the same over the last five entries
RecentPathLength(history) ==
    PathLength(history, IF Len(history) > 5 THEN Len(history) - 4 ELSE 1, Len(history))

\* C15: isItemMoving(e) is true exactly when e has at least 2 history
\* entries and the distances between consecutive entries among its last 5
\* sum to at least 50 m
C15_MovingIffAtLeastFiftyMeters ==
    answer.op = "isItemMoving" =>
        LET history == trackingUpdates[answer.itemId] IN
        answer.moving = (Len(history) >= 2 /\ RecentPathLength(history) >= 50)

\* C15 as amended: isItemMoving(e) is true exactly when e has at least 2
\* history entries and the distances between consecutive entries among its
\* last 5 sum to more than 50 m
C15_MovingIffMoreThanFiftyMeters ==
    answer.op = "isItemMoving" =>
        LET history == trackingUpdates[answer.itemId] IN
        answer.moving = (Len(history) >= 2 /\ RecentPathLength(history) > 50)

C15_Witness ==
    /\ answer.op = "isItemMoving"
    /\ answer.itemId = "1"
    /\ Len(trackingUpdates["1"]) = 6
    /\ PathLength(trackingUpdates["1"], 1, 6) > 50
    /\ RecentPathLength(trackingUpdates["1"]) = 50
    /\ answer.moving = FALSE

\* C16: getItemSpeed(e) returns null when e has fewer than 2 history entries
\* or when no time elapsed between the last two; otherwise it returns the
\* distance between the last two entries divided by the seconds between them
C16_SpeedIsNullWithoutElapsedTime ==
    answer.op = "getItemSpeed" =>
        LET history == trackingUpdates[answer.itemId]
            n == Len(history)
        IN
        IF n < 2 THEN answer.speed = NullSpeed
        ELSE IF history[n].timestamp = history[n-1].timestamp
             THEN answer.speed = NullSpeed
             ELSE /\ answer.speed.kind = "number"
                  /\ answer.speed.meters * (history[n].timestamp - history[n-1].timestamp)
                       = answer.speed.seconds
                           * Abs(history[n].location.latitude
                                   - history[n-1].location.latitude)

\* C17: getTrackingHistory(e) returns a read-only snapshot: a step of a
\* map, which loaded the history and appends the updates it receives to
\* what it holds and cuts that to its own cap, leaves the history stored in
\* TrackingService unchanged
C17_HistoryIsReadOnlySnapshot ==
    [][viewVars' # viewVars => trackingUpdates' = trackingUpdates]_vars

\* C18: an operation on one entity (here a simulated tick or an
\* updateItemLocation call) leaves the current location, the history, the
\* tracking flag and the subscription of every other entity unchanged, a
\* device and a vehicle of the same service included; the history, the flag
\* and the subscription of an entity are what the service answers for its id
C18_OtherEntitiesUntouched ==
    [][(lastCall'.op \in {"tick", "updateItemLocation"}
           /\ lastCall'.itemType \in ItemTypes)
       => \A t \in ItemTypes, i \in ItemIds :
              (HasItem(devices, vehicles, t, i)
                  /\ <<t, i>> # <<lastCall'.itemType, lastCall'.itemId>>)
              => /\ ItemOf(devices', vehicles', t, i).currentLocation
                        = ItemOf(devices, vehicles, t, i).currentLocation
                 /\ trackingUpdates'[i] = trackingUpdates[i]
                 /\ realTimeTracking'[i] = realTimeTracking[i]
                 /\ locationUpdateCallbacks'[i] = locationUpdateCallbacks[i]]_vars

\* C20: a subscriber callback that throws does not stall ingestion: the
\* update that triggered it is in the history and is the item's current
\* location, updateItemLocation still returns it to its caller, and a
\* device-GPS position that passed the filter is handed to the callback of
\* every item that is tracked, not only to those before the one whose
\* subscriber threw
C20_ThrowingCallbackDoesNotStall ==
    /\ (Ingested /\ Accepted) =>
         /\ \E k \in 1..Len(trackingUpdates[lastCall.itemId]) :
                trackingUpdates[lastCall.itemId][k].seq = lastCall.update
         /\ ItemOf(devices, vehicles, lastCall.itemType, lastCall.itemId).currentLocation
                = lastCall.sample
    /\ lastCall.op = "updateItemLocation" => ReturnOf(lastCall, faulty) = lastCall.update
    /\ gpsService.notified # << >> =>
         gpsService.notified =
             [k \in 1..Len(gpsService.callbacks) |-> gpsService.callbacks[k].itemId]

\* C22: eviction from a history is FIFO: a history holds at most the cap, in
\* acceptance order and without a duplicate, and whenever an update is
\* accepted the history becomes what it was with the update appended, cut
\* from the front to the cap: only the oldest entries are dropped
C22_EvictionIsFIFO ==
    [][\A i \in ItemIds :
          /\ Len(trackingUpdates'[i]) <= HistoryCap
          /\ \A k \in 2..Len(trackingUpdates'[i]) :
                 trackingUpdates'[i][k-1].seq < trackingUpdates'[i][k].seq
          /\ trackingUpdates'[i] # trackingUpdates[i] =>
                 /\ Last(trackingUpdates'[i]).seq = nextSeq'
                 /\ nextSeq' = nextSeq + 1
                 /\ trackingUpdates'[i] =
                        SliceLast(Append(trackingUpdates[i], Last(trackingUpdates'[i])),
                                  HistoryCap)]_vars

\* C23: the history that a map holds for an item never has more entries
\* than the cap of a view, neither right after the map loaded the item's
\* history from TrackingService nor after an update it received
C23_ViewHistoryWithinCap ==
    \A s \in Subscribers, i \in ItemIds :
        Len(ArrayOf(viewUpdates[s][i], trackingUpdates, i)) <= ViewCap

\* C26: no live update (a simulated tick, a device-GPS sample or a manual
\* updateItemLocation) changes the lastKnownLocation of any device or
\* vehicle
C26_LastKnownLocationIsKept ==
    [][\A t \in ItemTypes, i \in ItemIds :
          ItemOf(devices', vehicles', t, i).lastKnownLocation
              = ItemOf(devices, vehicles, t, i).lastKnownLocation]_vars

C26_Witness ==
    LET history == trackingUpdates["1"] IN
    /\ \E k \in 1..Len(history) : history[k].source = "Real-time GPS"
    /\ \E k \in 1..Len(history) : history[k].location.source = "manual"
    /\ \E k \in 1..Len(history) :
           history[k].source = "Manual Update" /\ history[k].location.source = "gps"
    /\ devices["1"].currentLocation # devices["1"].lastKnownLocation
    /\ vehicles["1"].currentLocation # vehicles["1"].lastKnownLocation
    /\ devices["1"].lastKnownLocation = Location(0, "gps")

\* C28: after any sequence of enableRealTimeTracking and
\* disableRealTimeTracking calls, made by updateDevice and updateVehicle as
\* status and activation change, every id has at most one running
\* simulation timer, and none while its tracking is disabled
C28_AtMostOneTimerAndNoneWhenDisabled ==
    \A i \in ItemIds :
        /\ timers[i] <= 1
        /\ ~realTimeTracking[i] => timers[i] = 0

\* the item ids of the entries of GPSService.callbacks, in order
TrackedIds(gps) == [k \in 1..Len(gps.callbacks) |-> gps.callbacks[k].itemId]

\* C21: a callback that unsubscribes itself, or stops its own tracking,
\* while an update is delivered does not corrupt the dispatch.  A tick or
\* updateItemLocation that accepts an update stores it, invokes the callback
\* registered for the item at that moment and no other, and leaves the
\* registrations of the other items alone; a device-GPS position that
\* passes the filter is handed to the callback of every item tracked at that
\* moment and to no other, and each of them stores its update; so a callback
\* that has left is not invoked again
C21_LeavingDuringDeliveryIsSafe ==
    [][/\ (nextSeq' = nextSeq + 1 /\ gpsService' = gpsService) =>
            LET id == lastCall'.itemId IN
            /\ Last(trackingUpdates'[id]).seq = lastCall'.update
            /\ ItemOf(devices', vehicles', lastCall'.itemType, id).currentLocation
                   = lastCall'.sample
            /\ lastCall'.invoked =
                   (IF locationUpdateCallbacks[id] # NoCallback
                    THEN << [callback |-> locationUpdateCallbacks[id],
                             update |-> lastCall'.update] >>
                    ELSE << >>)
            /\ \A j \in ItemIds \ {id} :
                   locationUpdateCallbacks'[j] = locationUpdateCallbacks[j]
       /\ (gpsService'.op = "position"
              /\ gpsService'.lastKnownPosition # gpsService.lastKnownPosition) =>
            /\ gpsService'.notified = TrackedIds(gpsService)
            /\ \A k \in 1..Len(gpsService'.callbacks) :
                   MapHas(gpsService.callbacks, gpsService'.callbacks[k].itemId)
            /\ \A k \in 1..Len(gpsService.callbacks) :
                   LET e == gpsService.callbacks[k] IN
                   /\ Last(trackingUpdates'[e.itemId]).location
                          = gpsService'.lastKnownPosition
                   /\ Last(trackingUpdates'[e.itemId]).seq > nextSeq
                   /\ ItemOf(devices', vehicles', e.itemType, e.itemId).currentLocation
                          = gpsService'.lastKnownPosition]_vars

C21_Witness ==
    /\ gpsService.op = "position"
    /\ gpsService.notified = <<"2", "1">>
    /\ TrackedIds(gpsService) = <<"1">>
    /\ lastCall.op = "updateItemLocation"
    /\ lastCall.itemId = "1"
    /\ Invocations("viewA") = 1
    /\ locationUpdateCallbacks["1"] = NoCallback
    /\ Last(trackingUpdates["2"]).location = gpsService.lastKnownPosition

\* C24: the first sample of the watch for a tracked device that has no
\* accepted position yet is accepted, whatever positions were accepted for
\* other devices before or obtained by one-off position requests: once the
\* watch has reported a position, every tracked device has one
C24_FirstSampleIsAccepted ==
    gpsService.op = "position" =>
        \A k \in 1..Len(gpsService.callbacks) :
            trackingUpdates[gpsService.callbacks[k].itemId] # << >>

\* C29: after any sequence of startTracking, stopTracking and
\* stopAllTracking calls, isTracking is true exactly when watchId is set and
\* exactly when a callback is registered, the browser holds one watch then
\* and none otherwise, and never more than one
C29_WatchIffCallbackRegistered ==
    /\ gpsService.isTracking <=> gpsService.watchId # 0
    /\ gpsService.isTracking <=> gpsService.callbacks # << >>
    /\ gpsService.watches = (IF gpsService.callbacks # << >> THEN 1 ELSE 0)
    /\ gpsService.watches <= 1

C29_Witness ==
    /\ gpsService.op = "stopTracking"
    /\ TrackedIds(gpsService) = <<"2">>
    /\ trackingUpdates["1"] # << >>
    /\ trackingUpdates["2"] = << >>
    /\ gpsService.isTracking
    /\ gpsService.watches = 1

----------------------------------------------------------------------------
(* Properties of MobileTrackingService *)

Returned(c) == calls[c].pc = "returned"

MissingOrEmpty(value) == value = Undefined \/ value = ""

\* the field a request type requires is missing or empty
LacksRequiredField(request) ==
    \/ request.requestType = "EMERGENCY" /\ MissingOrEmpty(request.emergencyCode)
    \/ request.requestType = "COURT_ORDER" /\ MissingOrEmpty(request.courtOrderNumber)
    \/ request.requestType = "CONSENT" /\ MissingOrEmpty(request.consentToken)

\* the officer exists, is active and is POLICE or ADMIN
OfficerMayTrack(officerId) ==
    /\ officerId \in DOMAIN Users
    /\ Users[officerId].isActive = TRUE
    /\ Users[officerId].role \in {"POLICE", "ADMIN"}

RejectedAsUnauthorized(c) ==
    /\ Returned(c)
    /\ calls[c].result.success = FALSE
    /\ calls[c].result.error = UnauthorizedError

\* the call went past the authorization check, to the audit row and the carrier
PassedAuthorization(c) ==
    calls[c].pc \in {"createRequest", "carrier", "reverseGeocode",
                     "createLocation", "updateRequest"}
        \/ calls[c].trackingRequestId # Undefined

CreatedNothing(c) ==
    calls[c].trackingRequestId = Undefined /\ calls[c].point = Undefined

\* C8: once the officer lookup has answered, an EMERGENCY, COURT_ORDER or
\* CONSENT request whose emergencyCode, courtOrderNumber or consentToken is
\* missing or empty is rejected as unauthorized whatever the officer's role,
\* any request of another type is rejected, and LOST_DEVICE by an officer
\* who may track is not
C8_MissingFieldIsUnauthorized ==
    \A c \in CallIds :
        calls[c].lookup = "resolved" =>
            /\ (LacksRequiredField(calls[c].request)
                    \/ calls[c].request.requestType \notin RequestTypes)
                   => RejectedAsUnauthorized(c)
            /\ (calls[c].request.requestType = "LOST_DEVICE"
                    /\ OfficerMayTrack(calls[c].request.officerId))
                   => ~RejectedAsUnauthorized(c)

\* C9: a call goes past the authorization check only for an officer who
\* exists, is active and is POLICE or ADMIN; for any other requester it
\* returns a failure with the unauthorized error; a rejected request creates
\* no MobileTrackingRequest row and no Location row
C9_OnlyOfficersPassAndOthersAreUnauthorized ==
    \A c \in CallIds :
        /\ PassedAuthorization(c) => OfficerMayTrack(calls[c].request.officerId)
        /\ (Returned(c) /\ ~OfficerMayTrack(calls[c].request.officerId))
               => RejectedAsUnauthorized(c)
        /\ RejectedAsUnauthorized(c) => CreatedNothing(c)

\* C9 as amended: the same, except that the failure carries the unauthorized
\* error when the officer lookup answers and the store's error when the
\* lookup itself fails; every row in the store was created by a call that
\* passed authorization
C9_OnlyOfficersPassAndOthersFail ==
    /\ \A c \in CallIds :
        /\ PassedAuthorization(c) => OfficerMayTrack(calls[c].request.officerId)
        /\ (Returned(c) /\ ~OfficerMayTrack(calls[c].request.officerId))
               => /\ calls[c].result.success = FALSE
                  /\ calls[c].lookup = "resolved"
                         => calls[c].result.error = UnauthorizedError
                  /\ calls[c].lookup = "rejected"
                         => calls[c].result.error = StoreError
                  /\ CreatedNothing(c)
        /\ RejectedAsUnauthorized(c) => CreatedNothing(c)
    /\ \A k \in 1..Len(mobileTrackingRequests) :
           /\ OfficerMayTrack(mobileTrackingRequests[k].officerId)
           /\ \E c \in CallIds :
                  calls[c].trackingRequestId = mobileTrackingRequests[k].id
    /\ \A k \in 1..Len(locations) :
           \E c \in CallIds : calls[c].point = locations[k].id

C9_Witness ==
    /\ RejectedAsUnauthorized(1)
    /\ calls[1].request.officerId = "user1"
    /\ calls[1].request.requestType = "LOST_DEVICE"
    /\ calls[1].lookup = "resolved"
    /\ mobileTrackingRequests = << >>
    /\ locations = << >>

\* C10: every MobileTrackingRequest row has its outcome written exactly once
\* before the call that created it returns, and never more than once
C10_OutcomeWrittenExactlyOnce ==
    /\ \A k \in 1..Len(mobileTrackingRequests) :
           mobileTrackingRequests[k].outcomeWrites <= 1
    /\ \A c \in CallIds :
           (Returned(c) /\ calls[c].trackingRequestId # Undefined)
               => \A k \in 1..Len(mobileTrackingRequests) :
                      mobileTrackingRequests[k].id = calls[c].trackingRequestId
                          => mobileTrackingRequests[k].outcomeWrites = 1

\* the lost-device request of an active police officer for +254701000000
SafaricomLostDevice ==
    Request(SafaricomNumber, "LOST_DEVICE", "police1", Undefined, Undefined, Undefined)

\* C11: a call for +254701000000, LOST_DEVICE and an active POLICE officer
\* that got as far as its audit row has resolved the carrier SAFARICOM, and
\* the one result it returns carries a non-empty requestId, whether the
\* adapter succeeded, was unconfigured, or a later persistence step failed
C11_SafaricomResultCarriesRequestId ==
    \A c \in CallIds :
        (Returned(c) /\ calls[c].request = SafaricomLostDevice
            /\ calls[c].trackingRequestId # Undefined)
        => /\ calls[c].network = "SAFARICOM"
           /\ calls[c].result.requestId \notin {"", Undefined}

\* the audit row that call c created, and the Location row it saved
RequestRowOf(c) ==
    CHOOSE row \in {mobileTrackingRequests[k] : k \in 1..Len(mobileTrackingRequests)} :
        row.id = calls[c].trackingRequestId

LocationRowOf(c) ==
    CHOOSE row \in {locations[k] : k \in 1..Len(locations)} : row.id = calls[c].point

CarrierSucceeded(c) == Returned(c) /\ calls[c].trackingResult.success = TRUE

CarrierFailed(c) == Returned(c) /\ calls[c].trackingResult.error # Undefined

PrefixOf(number) ==
    IF Len(number) >= 4 /\ SubSeq(number, 1, 4) = <<"+","2","5","4">>
    THEN SubSeq(number, 5, IF Len(number) < 7 THEN Len(number) ELSE 7)
    ELSE SubSeq(number, 1, IF Len(number) < 3 THEN Len(number) ELSE 3)

DigitValue(ch) ==
    CASE ch = "0" -> 0 [] ch = "1" -> 1 [] ch = "2" -> 2 [] ch = "3" -> 3
      [] ch = "4" -> 4 [] ch = "5" -> 5 [] ch = "6" -> 6 [] ch = "7" -> 7
      [] ch = "8" -> 8 [] ch = "9" -> 9 [] OTHER -> -1000

\* a three-digit prefix as a number, negative when it is not three digits
PrefixValue(prefix) ==
    IF Len(prefix) = 3
    THEN 100 * DigitValue(prefix[1]) + 10 * DigitValue(prefix[2]) + DigitValue(prefix[3])
    ELSE -1

\* the carrier that the prefix ranges give: 701-729, 730-739 and 750-759,
\* 770-779
CarrierOfPrefix(prefix) ==
    LET v == PrefixValue(prefix) IN
    IF v >= 701 /\ v <= 729 THEN "SAFARICOM"
    ELSE IF (v >= 730 /\ v <= 739) \/ (v >= 750 /\ v <= 759) THEN "AIRTEL"
    ELSE IF v >= 770 /\ v <= 779 THEN "TELKOM"
    ELSE "UNKNOWN"

AdapterInvoked(c) ==
    \/ calls[c].pc \in {"carrier", "reverseGeocode", "createLocation", "updateRequest"}
    \/ calls[c].trackingResult # NoResult

\* C13: the carrier a call resolves is the one the prefix of its number
\* gives, the same for every call with that prefix; a call that came to the
\* resolution with a prefix in none of the three tables has returned a
\* failure with 'Unknown network provider', and no carrier adapter was invoked
C13_CarrierIsFunctionOfPrefix ==
    \A c \in CallIds :
        /\ calls[c].network # Undefined =>
               calls[c].network = CarrierOfPrefix(PrefixOf(calls[c].request.mobileNumber))
        /\ \A d \in CallIds :
               (calls[c].network # Undefined /\ calls[d].network # Undefined
                   /\ PrefixOf(calls[c].request.mobileNumber)
                          = PrefixOf(calls[d].request.mobileNumber))
               => calls[c].network = calls[d].network
        /\ (calls[c].pc # "idle"
               /\ CarrierOfPrefix(PrefixOf(calls[c].request.mobileNumber)) = "UNKNOWN")
           => /\ ~AdapterInvoked(c)
              /\ calls[c].trackingRequestId # Undefined =>
                   /\ Returned(c)
                   /\ calls[c].result.success = FALSE
                   /\ calls[c].result.error = UnknownNetworkError
                   /\ calls[c].result.location = Undefined

C13_Witness ==
    /\ Returned(1)
    /\ calls[1].request.mobileNumber = UnlistedNumber
    /\ calls[1].trackingRequestId # Undefined
    /\ calls[1].result.error = UnknownNetworkError
    /\ calls[2].network = "SAFARICOM"
    /\ calls[2].request.mobileNumber = SafaricomNumber
    /\ AdapterInvoked(2)

\* C25: concurrent calls for different numbers do not interfere: each call
\* creates a record of its own and the result it returns carries the id of
\* that record; a record whose outcome was written holds the number, the
\* carrier and the outcome of the call that created it; and a call that has
\* not returned can take its next step whatever the other calls are waiting
\* for
C25_ConcurrentCallsDoNotInterfere ==
    /\ \A c \in CallIds :
          /\ (Returned(c) /\ calls[c].trackingRequestId # Undefined)
                 => calls[c].result.requestId = calls[c].trackingRequestId
          /\ \A d \in CallIds \ {c} :
                 calls[c].trackingRequestId # Undefined
                     => calls[d].trackingRequestId # calls[c].trackingRequestId
          /\ calls[c].pc \notin {"idle", "returned"} => ENABLED Settle(c)
    /\ \A k \in 1..Len(mobileTrackingRequests) :
          LET row == mobileTrackingRequests[k] IN
          \E c \in CallIds :
              /\ calls[c].trackingRequestId = row.id
              /\ row.mobileNumber = calls[c].request.mobileNumber
              /\ row.outcomeWrites > 0 =>
                     /\ row.success = calls[c].trackingResult.success
                     /\ row.error = calls[c].trackingResult.error
                     /\ row.network = calls[c].network
                     /\ row.locationId = calls[c].point

\* how far a call has come
Rank(pc) ==
    CASE pc = "idle" -> 0 [] pc = "findOfficer" -> 1 [] pc = "createRequest" -> 2
      [] pc = "carrier" -> 3 [] pc = "reverseGeocode" -> 4
      [] pc = "createLocation" -> 5 [] pc = "updateRequest" -> 6
      [] pc = "returned" -> 7 [] OTHER -> -1

\* success with a location and no error, or failure with an error and no
\* location
Structured(result) ==
    \/ result.success = TRUE /\ result.location # Undefined /\ result.error = Undefined
    \/ result.success = FALSE /\ result.location = Undefined
           /\ result.error \notin {Undefined, ""}

\* C14: every call, once made, eventually returns, given that the store
\* calls and the carrier delay settle; what it returns is one structured
\* result, success with a location or failure with an error, also when the
\* authorization, the carrier resolution, the carrier or the store failed;
\* the result of a returned call never changes, and no step of a call is
\* taken twice
C14_EveryCallReturnsOneResult ==
    /\ \A c \in CallIds : (calls[c].pc # "idle") ~> Returned(c)
    /\ [](\A c \in CallIds :
             /\ Rank(calls[c].pc) >= 0
             /\ Returned(c) => Structured(calls[c].result)
             /\ ~Returned(c) => calls[c].result = NoResult)
    /\ [][\A c \in CallIds :
             /\ calls'[c] # calls[c] => Rank(calls'[c].pc) > Rank(calls[c].pc)
             /\ Returned(c) => calls'[c] = calls[c]]_vars
    /\ [](Len(mobileTrackingRequests) <= Cardinality({c \in CallIds : Rank(calls[c].pc) > 2})
          /\ Len(locations) <= Cardinality({c \in CallIds : Rank(calls[c].pc) > 5}))

C14_Witness ==
    /\ Returned(1)
    /\ calls[1].result.success = FALSE
    /\ calls[1].result.error = StoreError
    /\ calls[1].trackingResult.success = TRUE
    /\ Returned(2)
    /\ calls[2].result.success = TRUE

----------------------------------------------------------------------------
(* Properties of the socket server *)

InFlight(m) ==
    socketCalls[m].pc \in {"createLocation", "createTrackingUpdate", "updateItem"}

\* the tracking-update rows of an item, oldest first
RowsOfItem(itemType, itemId) ==
    SelectSeq(trackingUpdateRows,
              LAMBDA row : row.itemType = itemType /\ row.itemId = itemId)

\* C19: 'location:update' messages for the same item are handled one after
\* the other; once every message for an item has been handled to its end,
\* the item's current location is the location of the tracking update that
\* was created last for it
C19_SameItemUpdatesAreSerialized ==
    \A t \in ItemTypes, i \in ItemIds :
        LET mine == {m \in MessageIds :
                        socketCalls[m].data.itemType = t /\ socketCalls[m].data.itemId = i}
        IN
        (mine # {} /\ \A m \in mine : socketCalls[m].pc = "done")
        => currentLocationIds[t][i] = Last(RowsOfItem(t, i)).locationId


\* C27: every location update that the handler persisted to its end is
\* emitted as one 'location:updated' event on the channel keyed by the
\* item's id, so every socket that has subscribed to the item and has not
\* unsubscribed receives it
C27_PersistedUpdateReachesSubscribers ==
    [][\A m \in MessageIds :
          (socketCalls[m].pc # "done" /\ socketCalls'[m].pc = "done") =>
              /\ Len(emitted') = Len(emitted) + 1
              /\ Last(emitted').event = "location:updated"
              /\ Last(emitted').itemId = socketCalls[m].data.itemId
              /\ Last(emitted').location = socketCalls[m].locationRecord
              /\ Last(emitted').to = ItemRoom(socketCalls[m].data.itemId)
              /\ \A c \in Clients :
                     ItemRoom(socketCalls[m].data.itemId) \in rooms[c]
                         => c \in Last(emitted').recipients]_vars

----------------------------------------------------------------------------
(* Properties of retryWithBackoff *)

\* C30: for maxRetries >= 1, fn is called at least once and at most
\* maxRetries times; the call resolves with the first successful result and
\* calls fn no more; between failed attempt k (from 0) and the next attempt
\* it waits baseDelay * 2^k, and it does not wait after the last attempt;
\* after maxRetries failures it rejects with the error of the last attempt
C30_RetryWithBackoff ==
    (retry.pc # "idle" /\ retry.maxRetries >= 1) =>
        LET n == Len(retry.outcomes)
            failures == Cardinality({k \in 1..n : ~retry.outcomes[k].ok})
        IN
        /\ n <= retry.maxRetries
        /\ retry.pc \in {"resolved", "rejected"} => n >= 1
        /\ \A k \in 1..(n - 1) : ~retry.outcomes[k].ok
        /\ retry.pc = "resolved" <=> (n >= 1 /\ retry.outcomes[n].ok)
        /\ retry.pc = "resolved" => retry.settled = retry.outcomes[n].with
        /\ retry.pc = "rejected" <=> failures = retry.maxRetries
        /\ retry.pc = "rejected" => retry.settled = retry.outcomes[n].with
        /\ Len(retry.slept) =
               (IF failures = retry.maxRetries THEN failures - 1 ELSE failures)
        /\ \A k \in 1..Len(retry.slept) :
               retry.slept[k] = retry.baseDelay * (2 ^ (k - 1))
        /\ retry.pc = "fn" <=> (n = failures /\ Len(retry.slept) = n /\ retry.attempt = n
                                  /\ n < retry.maxRetries)

C30_Witness ==
    /\ retry.pc = "rejected"
    /\ retry.maxRetries = 3
    /\ retry.baseDelay = 1000
    /\ retry.outcomes = <<[ok |-> FALSE, with |-> "errorA"],
                          [ok |-> FALSE, with |-> "errorA"],
                          [ok |-> FALSE, with |-> "errorB"]>>
    /\ retry.slept = <<1000, 2000>>
    /\ retry.settled = "errorB"

====
